---------------------------- MODULE Spec2Model ----------------------------
(***************************************************************************)
(* A model of magnet-webdav: the torrent service (catalog of Magnet and    *)
(* File rows, the mutex-guarded activeTorrents map, AddMagnet and the      *)
(* acquisition goroutines it spawns), the file reconciliation done by      *)
(* handleTorrentReady, and the WebDAV GET handler with its range and       *)
(* conditional-request logic.                                              *)
(*                                                                         *)
(* Go strings are sequences of one-character strings, so that the string   *)
(* operations of the source (regexp match, Split, LastIndex, slicing,      *)
(* ParseInt, len) are computed and not assumed.                            *)
(***************************************************************************)
EXTENDS Integers, Sequences, FiniteSets, TLC

VARIABLES
    magnets,         \* the magnets table: a set of Magnet rows
    files,           \* the files table: a set of File rows
    nextFileID,      \* the files table's auto-increment counter
    activeTorrents,  \* TorrentService.activeTorrents: infoHash -> torrent or Nil
    mutex,           \* TorrentService.mutex: [writer, readers]
    ctxDone,         \* TorrentService.ctx has been cancelled
    engine,          \* the torrent client: infoHash -> "none" | "added" | "info"
    torrFiles,       \* the torrent client: infoHash -> torr.Files() as <<[path, length]>>
    calls,           \* AddMagnet invocations, one record per caller
    tasks,           \* addTorrentToClient goroutines, in spawn order
    req,             \* the HTTP request handleGet served last
    resp,            \* the HTTP response handleGet produced for it
    pendingAccess,   \* updateAccessStats goroutines spawned and not yet run, per infoHash
    stopPc,          \* where TorrentService.Stop is: "idle", "lock", "drop", "done"
    removing,        \* the ids whose RemoveMagnet deleted the files and not yet the magnet
    startPc,         \* where TorrentService.Start is: "idle", "done", "failed"
    cfg              \* config.Config: [Auth |-> [Enabled, Username, Password]]

vars == <<magnets, files, nextFileID, activeTorrents, mutex, ctxDone, engine,
          torrFiles, calls, tasks, req, resp, pendingAccess, stopPc, removing,
          startPc, cfg>>

httpVars == <<req, resp, pendingAccess>>
adminVars == <<stopPc, removing, startPc, cfg>>

-----------------------------------------------------------------------------
(* Bounds of the model.                                                    *)

MaxCalls == 2        \* AddMagnet invocations in one run
MaxReported == 3     \* entries in a reported file list (reconciliation runs)
MaxPrior == 2        \* entries in the list whose pass produced the prior catalog
MaxPasses == 2       \* reconciliation passes over one reported list
MaxOffset == 2       \* the small byte offsets a Range header is built from

-----------------------------------------------------------------------------
(* Go strings.                                                             *)

\* the nil torrent pointer, the nil *Magnet (an empty set of rows) and the
\* free mutex; requests without a method carry NoMethod
Nil == <<>>
NoRow == {}
NoHolder == 0
NoMethod == "none"

Min(a, b) == IF a < b THEN a ELSE b
Max(a, b) == IF a > b THEN a ELSE b

\* strings.ToLower on one character
lowerChar(c) ==
    CASE c = "A" -> "a" [] c = "B" -> "b" [] c = "C" -> "c" [] c = "D" -> "d"
      [] c = "E" -> "e" [] c = "F" -> "f" [] c = "M" -> "m" [] c = "P" -> "p"
      [] c = "R" -> "r" [] c = "S" -> "s" [] c = "T" -> "t" [] c = "X" -> "x"
      [] OTHER -> c

ToLower(s) == [i \in 1..Len(s) |-> lowerChar(s[i])]

\* strings.LastIndex(s, c) for a one-character c: a 0-based index, -1 if absent
LastIndex(s, c) ==
    IF \E i \in 1..Len(s) : s[i] = c
    THEN (CHOOSE i \in 1..Len(s) : s[i] = c /\ \A j \in (i+1)..Len(s) : s[j] # c) - 1
    ELSE -1

\* s[k:] for a 0-based k in 0..len(s); the caller handles the out-of-range panic
SliceFrom(s, k) == SubSeq(s, k + 1, Len(s))

\* strings.HasPrefix
HasPrefix(s, p) == Len(s) >= Len(p) /\ SubSeq(s, 1, Len(p)) = p

\* path.Ext: the suffix beginning at the final dot of the final slash-separated
\* element, empty if there is no dot
pathExt(p) ==
    LET stop == {j \in 1..Len(p) : p[j] = "/" \/ p[j] = "."}
    IN  IF stop = {} THEN <<>>
        ELSE LET k == CHOOSE j \in stop : \A m \in stop : m <= j
             IN  IF p[k] = "." THEN SubSeq(p, k, Len(p)) ELSE <<>>

-----------------------------------------------------------------------------
(* Paths, lengths and media types.                                         *)

PathA == <<"a", ".", "m", "p", "4">>
PathB == <<"b">>
PathC == <<"c", ".", "S", "R", "T">>

Paths == {PathA, PathB, PathC}

\* TorrentService.getMimeType (services): a table lookup on the lowered path.Ext
ServiceMimeTable(ext) ==
    CASE ext = <<".", "m", "p", "4">> -> "video/mp4"
      [] ext = <<".", "m", "k", "v">> -> "video/x-matroska"
      [] ext = <<".", "a", "v", "i">> -> "video/x-msvideo"
      [] ext = <<".", "m", "o", "v">> -> "video/quicktime"
      [] ext = <<".", "w", "e", "b", "m">> -> "video/webm"
      [] ext = <<".", "j", "p", "g">> -> "image/jpeg"
      [] ext = <<".", "p", "n", "g">> -> "image/png"
      [] ext = <<".", "s", "r", "t">> -> "text/plain"
      [] ext = <<".", "a", "s", "s">> -> "text/plain"
      [] OTHER -> "application/octet-stream"

ServiceGetMimeType(filename) == ServiceMimeTable(ToLower(pathExt(filename)))

\* torr.Files() entries the model draws reported file lists from
Entries ==
    { [path |-> PathA, length |-> 10], [path |-> PathA, length |-> 5],
      [path |-> PathB, length |-> 20], [path |-> PathB, length |-> 25],
      [path |-> PathC, length |-> 5] }

\* the file lists of at most n entries
FileLists(n) == UNION { [1..k -> Entries] : k \in 0..n }

RECURSIVE SumLengths(_)
SumLengths(l) == IF l = <<>> THEN 0 ELSE l[1].length + SumLengths(Tail(l))

\* torr.Name(), torr.Length()
TorrName(infoHash) == "torrent"
TorrLength(infoHash) == SumLengths(torrFiles[infoHash])

-----------------------------------------------------------------------------
(* The persistence layer (gorm) on the two tables.                         *)

\* db.Where("id = ?", id).First(&m): the row in a set, or NoRow for ErrRecordNotFound
dbFirstMagnet(id) ==
    IF \E m \in magnets : m.ID = id THEN {CHOOSE m \in magnets : m.ID = id} ELSE NoRow

\* db.Model(&Magnet{}).Where("id = ?", id).Updates(u): every matching row, none if absent
\* u holds the columns to set
dbUpdatesMagnet(tbl, id, u) ==
    { IF m.ID = id
      THEN [k \in DOMAIN m |-> IF k \in DOMAIN u THEN u[k] ELSE m[k]]
      ELSE m : m \in tbl }

\* db.Where("magnet_id = ?", id).Find(&rows)
dbFindFiles(tbl, id) == { f \in tbl : f.MagnetID = id }

\* db.Create(&rows): a bulk insert, the auto-increment key given in list order
dbCreateFiles(tbl, nextID, rows) ==
    tbl \cup { [rows[k] EXCEPT !.ID = nextID + k - 1] : k \in 1..Len(rows) }

\* db.Save(&row), one row after another: UPDATE by primary key, INSERT if no row has it
RECURSIVE dbSaveFiles(_, _)
dbSaveFiles(tbl, rows) ==
    IF rows = <<>> THEN tbl
    ELSE dbSaveFiles({f \in tbl : f.ID # rows[1].ID} \cup {rows[1]}, Tail(rows))

\* db.Where("id IN ?", ids).Delete(&File{})
dbDeleteFiles(tbl, ids) == { f \in tbl : f.ID \notin ids }

-----------------------------------------------------------------------------
(* handleTorrentReady: the diff of torr.Files() against the files table.   *)

\* existingFileMap[file.FilePath] = file over the rows in primary-key order
ExistingFileMap(rows) ==
    [ p \in {r.FilePath : r \in rows} |->
        CHOOSE r \in rows : r.FilePath = p /\ \A q \in rows : q.FilePath = p => q.ID <= r.ID ]

\* WalkStep comparing the stored index with the 1-based position
WalkStepOffByOne(infoHash, file, pos, st) ==
    LET filePath == file.path
        mimeType == ServiceGetMimeType(filePath)
        newFile == [ID |-> 0, MagnetID |-> infoHash, FilePath |-> filePath,
                    FileSize |-> file.length, FileIndex |-> pos - 1, MimeType |-> mimeType]
        seen == [st EXCEPT !.seenFiles = @ \cup {filePath}]
    IN  IF filePath \in st.seenFiles THEN st
        ELSE IF filePath \in DOMAIN st.existingFileMap
        THEN LET existingFile == st.existingFileMap[filePath]
                 needsUpdate == \/ existingFile.FileSize # file.length
                                \/ existingFile.FileIndex # pos
                                \/ existingFile.MimeType # mimeType
                 updatedFile == [existingFile EXCEPT !.FileSize = file.length,
                                                     !.FileIndex = pos - 1,
                                                     !.MimeType = mimeType]
             IN  [seen EXCEPT
                    !.filesToUpdate = IF needsUpdate THEN Append(@, updatedFile) ELSE @,
                    !.existingFileMap = [p \in (DOMAIN @) \ {filePath} |-> @[p]]]
        ELSE [seen EXCEPT !.filesToCreate = Append(@, newFile)]

\* WalkStep without the seenFiles check
WalkStepNoSeen(infoHash, file, pos, st) ==
    LET filePath == file.path
        mimeType == ServiceGetMimeType(filePath)
        newFile == [ID |-> 0, MagnetID |-> infoHash, FilePath |-> filePath,
                    FileSize |-> file.length, FileIndex |-> pos - 1, MimeType |-> mimeType]
    IN  IF filePath \in DOMAIN st.existingFileMap
        THEN LET existingFile == st.existingFileMap[filePath]
                 needsUpdate == \/ existingFile.FileSize # file.length
                                \/ existingFile.FileIndex # pos - 1
                                \/ existingFile.MimeType # mimeType
                 updatedFile == [existingFile EXCEPT !.FileSize = file.length,
                                                     !.FileIndex = pos - 1,
                                                     !.MimeType = mimeType]
             IN  [st EXCEPT
                    !.filesToUpdate = IF needsUpdate THEN Append(@, updatedFile) ELSE @,
                    !.existingFileMap = [p \in (DOMAIN @) \ {filePath} |-> @[p]]]
        ELSE [st EXCEPT !.filesToCreate = Append(@, newFile)]

\* WalkStep without `delete(existingFileMap, filePath)`: a matched row stays
\* among the rows to delete
WalkStepKeepsMatched(infoHash, file, pos, st) ==
    LET filePath == file.path
        mimeType == ServiceGetMimeType(filePath)
        newFile == [ID |-> 0, MagnetID |-> infoHash, FilePath |-> filePath,
                    FileSize |-> file.length, FileIndex |-> pos - 1, MimeType |-> mimeType]
        seen == [st EXCEPT !.seenFiles = @ \cup {filePath}]
    IN  IF filePath \in st.seenFiles THEN st
        ELSE IF filePath \in DOMAIN st.existingFileMap
        THEN LET existingFile == st.existingFileMap[filePath]
                 needsUpdate == \/ existingFile.FileSize # file.length
                                \/ existingFile.FileIndex # pos - 1
                                \/ existingFile.MimeType # mimeType
                 updatedFile == [existingFile EXCEPT !.FileSize = file.length,
                                                     !.FileIndex = pos - 1,
                                                     !.MimeType = mimeType]
             IN  [seen EXCEPT
                    !.filesToUpdate = IF needsUpdate THEN Append(@, updatedFile) ELSE @]
        ELSE [seen EXCEPT !.filesToCreate = Append(@, newFile)]

\* one iteration of `for i, file := range torr.Files()`; pos is i + 1
WalkStep(infoHash, file, pos, st) ==
    LET filePath == file.path
        mimeType == ServiceGetMimeType(filePath)
        newFile == [ID |-> 0, MagnetID |-> infoHash, FilePath |-> filePath,
                    FileSize |-> file.length, FileIndex |-> pos - 1, MimeType |-> mimeType]
        seen == [st EXCEPT !.seenFiles = @ \cup {filePath}]
    IN  IF filePath \in st.seenFiles THEN st
        ELSE IF filePath \in DOMAIN st.existingFileMap
        THEN LET existingFile == st.existingFileMap[filePath]
                 needsUpdate == \/ existingFile.FileSize # file.length
                                \/ existingFile.FileIndex # pos - 1
                                \/ existingFile.MimeType # mimeType
                 updatedFile == [existingFile EXCEPT !.FileSize = file.length,
                                                     !.FileIndex = pos - 1,
                                                     !.MimeType = mimeType]
             IN  [seen EXCEPT
                    !.filesToUpdate = IF needsUpdate THEN Append(@, updatedFile) ELSE @,
                    !.existingFileMap = [p \in (DOMAIN @) \ {filePath} |-> @[p]]]
        ELSE [seen EXCEPT !.filesToCreate = Append(@, newFile)]

RECURSIVE WalkFiles(_, _, _, _)
WalkFiles(infoHash, reported, pos, st) ==
    IF pos > Len(reported) THEN st
    ELSE WalkFiles(infoHash, reported, pos + 1, WalkStep(infoHash, reported[pos], pos, st))

\* lines 402-476: what one pass stages, given the rows Find returned
Staged(infoHash, existingFiles, reported) ==
    LET st == WalkFiles(infoHash, reported, 1,
                        [seenFiles |-> {}, existingFileMap |-> ExistingFileMap(existingFiles),
                         filesToCreate |-> <<>>, filesToUpdate |-> <<>>])
    IN  [filesToCreate |-> st.filesToCreate,
         filesToUpdate |-> st.filesToUpdate,
         filesToDelete |-> {st.existingFileMap[p].ID : p \in DOMAIN st.existingFileMap}]

\* ApplyStaged without the delete batch
ApplyStagedNoDelete(tbl, nextID, sg) ==
    dbSaveFiles(dbCreateFiles(tbl, nextID, sg.filesToCreate), sg.filesToUpdate)

\* lines 478-511: the three batches, each skipped when empty
ApplyStaged(tbl, nextID, sg) ==
    dbDeleteFiles(dbSaveFiles(dbCreateFiles(tbl, nextID, sg.filesToCreate),
                              sg.filesToUpdate),
                  sg.filesToDelete)

NoStaged == [filesToCreate |-> <<>>, filesToUpdate |-> <<>>, filesToDelete |-> {}]

-----------------------------------------------------------------------------
(* Magnet URIs and the identifier AddMagnet derives from them.             *)

Btih == <<"b", "t", "i", "h", ":">>

UriUpper   == <<"?">> \o Btih \o <<"A", "B">>
UriTracker == Btih \o <<"a", "b", "&", "t">>
UriOther   == Btih \o <<"&">> \o Btih \o <<"c", "d">>
UriPlain   == <<"x">>

Uris == {UriUpper, UriTracker, UriOther, UriPlain}

\* hex.EncodeToString(sha1.Sum(uri))[:20], as an injective stand-in that no
\* btih capture of the model's URIs equals
Sha1Hex20(s) == <<"#">> \o s

\* the start positions at which the regexp `btih:([^&]+)` matches
btihMatches(s) ==
    { i \in 1..Len(s) : /\ i + 5 <= Len(s)
                        /\ SubSeq(s, i, i + 4) = Btih
                        /\ s[i + 5] # "&" }

extractInfoHash(magnetURI) ==
    IF btihMatches(magnetURI) # {}
    THEN LET i == CHOOSE k \in btihMatches(magnetURI) :
                      \A m \in btihMatches(magnetURI) : k <= m
             from == i + 5
             amp == {j \in from..Len(magnetURI) : magnetURI[j] = "&"}
             to == IF amp = {} THEN Len(magnetURI)
                   ELSE (CHOOSE j \in amp : \A m \in amp : j <= m) - 1
         IN  ToLower(SubSeq(magnetURI, from, to))
    ELSE Sha1Hex20(magnetURI)

InfoHashes == { extractInfoHash(u) : u \in Uris }

-----------------------------------------------------------------------------
(* TorrentService.AddMagnet, one caller c at a time through its two         *)
(* database statements.                                                    *)

NewMagnet(infoHash, magnetURI) ==
    [ID |-> infoHash, MagnetURI |-> magnetURI, Name |-> "", TotalSize |-> 0,
     FileCount |-> 0, Status |-> "pending", AccessCount |-> 0]

\* which database statements of a pass returned an error: none
NoFault == [create |-> FALSE, updates |-> {}, delete |-> FALSE]

NewTask(magnetURI, infoHash) ==
    [pc |-> "start", magnetURI |-> magnetURI, infoHash |-> infoHash,
     staged |-> NoStaged, outcome |-> "none", failed |-> NoFault]

IdleCall == [pc |-> "idle", magnetURI |-> <<>>, infoHash |-> <<>>,
             ret |-> NoRow, err |-> FALSE, spawned |-> 0]

\* AddMagnetCheck looking the record up by its URI text instead of its identifier
AddMagnetCheckByURI(c, magnetURI) ==
    /\ calls[c].pc = "idle"
    /\ LET infoHash == extractInfoHash(magnetURI)
           existingMagnet == { m \in magnets : m.MagnetURI = magnetURI }
       IN  calls' = [calls EXCEPT ![c] =
                IF existingMagnet # NoRow
                THEN [@ EXCEPT !.pc = "done", !.magnetURI = magnetURI,
                               !.infoHash = infoHash, !.ret = existingMagnet]
                ELSE [@ EXCEPT !.pc = "create", !.magnetURI = magnetURI,
                               !.infoHash = infoHash]]
    /\ UNCHANGED <<magnets, files, nextFileID, activeTorrents, mutex, ctxDone,
                   engine, torrFiles, tasks, httpVars, adminVars>>

\* lines 336-342: the identifier, the existence check and the early return
AddMagnetCheck(c, magnetURI) ==
    /\ calls[c].pc = "idle"
    /\ LET infoHash == extractInfoHash(magnetURI)
           existingMagnet == dbFirstMagnet(infoHash)
       IN  calls' = [calls EXCEPT ![c] =
                IF existingMagnet # NoRow
                THEN [@ EXCEPT !.pc = "done", !.magnetURI = magnetURI,
                               !.infoHash = infoHash, !.ret = existingMagnet]
                ELSE [@ EXCEPT !.pc = "create", !.magnetURI = magnetURI,
                               !.infoHash = infoHash]]
    /\ UNCHANGED <<magnets, files, nextFileID, activeTorrents, mutex, ctxDone,
                   engine, torrFiles, tasks, httpVars, adminVars>>

\* lines 345-360: db.Create (refused by the primary key when the row exists),
\* then `go s.addTorrentToClient`
AddMagnetCreate(c) ==
    /\ calls[c].pc = "create"
    /\ LET infoHash == calls[c].infoHash
           magnet == NewMagnet(infoHash, calls[c].magnetURI)
       IN  IF \E m \in magnets : m.ID = infoHash
           THEN /\ calls' = [calls EXCEPT ![c] = [@ EXCEPT !.pc = "done", !.err = TRUE]]
                /\ UNCHANGED <<magnets, tasks>>
           ELSE /\ magnets' = magnets \cup {magnet}
                /\ tasks' = Append(tasks, NewTask(calls[c].magnetURI, infoHash))
                /\ calls' = [calls EXCEPT ![c] =
                       [@ EXCEPT !.pc = "done", !.ret = {magnet}, !.spawned = Len(tasks) + 1]]
    /\ UNCHANGED <<files, nextFileID, activeTorrents, mutex, ctxDone, engine,
                   torrFiles, httpVars, adminVars>>

-----------------------------------------------------------------------------
(* TorrentService.addTorrentToClient, goroutine t.                         *)

\* updateMagnetStatus: status, and the message into the name column
updateMagnetStatus(tbl, infoHash, status, errorMsg) ==
    LET updateData == IF errorMsg # ""
                      THEN [Status |-> status, Name |-> errorMsg]
                      ELSE [Status |-> status]
    IN  dbUpdatesMagnet(tbl, infoHash, updateData)

FinishTask(t, outcome) ==
    tasks' = [tasks EXCEPT ![t] = [@ EXCEPT !.pc = "done", !.outcome = outcome]]

GotoTask(t, pc) == tasks' = [tasks EXCEPT ![t] = [@ EXCEPT !.pc = pc]]

\* line 364, err == nil: the client holds a torrent for the identifier
ClientAddMagnetOk(t) ==
    /\ tasks[t].pc = "start"
    /\ engine' = [engine EXCEPT ![tasks[t].infoHash] = IF @ = "none" THEN "added" ELSE @]
    /\ GotoTask(t, "lock")
    /\ UNCHANGED <<magnets, files, nextFileID, activeTorrents, mutex, ctxDone,
                   torrFiles, calls, httpVars, adminVars>>

\* ClientAddMagnetErr without the status update
ClientAddMagnetErrUnrecorded(t) ==
    /\ tasks[t].pc = "start"
    /\ engine[tasks[t].infoHash] = "none"
    /\ FinishTask(t, "rejected")
    /\ UNCHANGED <<magnets, files, nextFileID, activeTorrents, mutex, ctxDone, engine,
                   torrFiles, calls, httpVars, adminVars>>

\* lines 365-369: the client refuses the URI
ClientAddMagnetErr(t) ==
    /\ tasks[t].pc = "start"
    /\ engine[tasks[t].infoHash] = "none"
    /\ magnets' = updateMagnetStatus(magnets, tasks[t].infoHash, "error", "engine error")
    /\ FinishTask(t, "rejected")
    /\ UNCHANGED <<files, nextFileID, activeTorrents, mutex, ctxDone, engine,
                   torrFiles, calls, httpVars, adminVars>>

MutexFree == mutex.writer = NoHolder /\ mutex.readers = {}

\* line 371: s.mutex.Lock()
TaskLock(t) ==
    /\ tasks[t].pc = "lock"
    /\ MutexFree
    /\ mutex' = [mutex EXCEPT !.writer = t]
    /\ GotoTask(t, "insert")
    /\ UNCHANGED <<magnets, files, nextFileID, activeTorrents, ctxDone, engine,
                   torrFiles, calls, httpVars, adminVars>>

\* TaskInsertUnlock without the Unlock
TaskInsertNoUnlock(t) ==
    /\ tasks[t].pc = "insert"
    /\ activeTorrents' = [activeTorrents EXCEPT ![tasks[t].infoHash] = tasks[t].infoHash]
    /\ GotoTask(t, "select")
    /\ UNCHANGED <<magnets, files, nextFileID, mutex, ctxDone, engine, torrFiles, calls,
                   httpVars, adminVars>>

\* lines 372-373: the map insert and s.mutex.Unlock()
TaskInsertUnlock(t) ==
    /\ tasks[t].pc = "insert"
    /\ activeTorrents' = [activeTorrents EXCEPT ![tasks[t].infoHash] = tasks[t].infoHash]
    /\ mutex' = [mutex EXCEPT !.writer = NoHolder]
    /\ GotoTask(t, "select")
    /\ UNCHANGED <<magnets, files, nextFileID, ctxDone, engine, torrFiles, calls,
                   httpVars, adminVars>>

\* the swarm delivers the metadata of a torrent the client holds
EngineGotInfo(infoHash) ==
    /\ engine[infoHash] = "added"
    /\ engine' = [engine EXCEPT ![infoHash] = "info"]
    /\ UNCHANGED <<magnets, files, nextFileID, activeTorrents, mutex, ctxDone,
                   torrFiles, calls, tasks, httpVars, adminVars>>

\* line 377: case <-torr.GotInfo()
SelectGotInfo(t) ==
    /\ tasks[t].pc = "select"
    /\ engine[tasks[t].infoHash] = "info"
    /\ GotoTask(t, "ready")
    /\ UNCHANGED <<magnets, files, nextFileID, activeTorrents, mutex, ctxDone,
                   engine, torrFiles, calls, httpVars, adminVars>>

\* SelectTimeout going on to handleTorrentReady after the status update
SelectTimeoutThenReady(t) ==
    /\ tasks[t].pc = "select"
    /\ engine[tasks[t].infoHash] # "info"
    /\ magnets' = updateMagnetStatus(magnets, tasks[t].infoHash, "error", "metadata timeout")
    /\ GotoTask(t, "ready")
    /\ UNCHANGED <<files, nextFileID, activeTorrents, mutex, ctxDone, engine,
                   torrFiles, calls, httpVars, adminVars>>

\* SelectTimeout without a timer: the case is never ready
SelectTimeoutNever(t) ==
    /\ tasks[t].pc = "select"
    /\ FALSE
    /\ UNCHANGED vars

\* lines 379-381: case <-time.After(30 * time.Second), the metadata not there
SelectTimeout(t) ==
    /\ tasks[t].pc = "select"
    /\ engine[tasks[t].infoHash] # "info"
    /\ magnets' = updateMagnetStatus(magnets, tasks[t].infoHash, "error", "metadata timeout")
    /\ FinishTask(t, "timeout")
    /\ UNCHANGED <<files, nextFileID, activeTorrents, mutex, ctxDone, engine,
                   torrFiles, calls, httpVars, adminVars>>

\* SelectCtxDone recording the abort as an error of the record
SelectCtxDoneMarksError(t) ==
    /\ tasks[t].pc = "select"
    /\ ctxDone
    /\ magnets' = updateMagnetStatus(magnets, tasks[t].infoHash, "error", "shutdown")
    /\ FinishTask(t, "aborted")
    /\ UNCHANGED <<files, nextFileID, activeTorrents, mutex, ctxDone, engine,
                   torrFiles, calls, httpVars, adminVars>>

\* lines 382-383: case <-s.ctx.Done()
SelectCtxDone(t) ==
    /\ tasks[t].pc = "select"
    /\ ctxDone
    /\ FinishTask(t, "aborted")
    /\ UNCHANGED <<magnets, files, nextFileID, activeTorrents, mutex, ctxDone,
                   engine, torrFiles, calls, httpVars, adminVars>>

\* lines 388-400: the summary fields and status "ready"
HandleReadyUpdate(t) ==
    /\ tasks[t].pc = "ready"
    /\ LET infoHash == tasks[t].infoHash
           updates == [Name |-> TorrName(infoHash),
                       TotalSize |-> TorrLength(infoHash),
                       FileCount |-> Len(torrFiles[infoHash]),
                       Status |-> "ready"]
       IN  magnets' = dbUpdatesMagnet(magnets, infoHash, updates)
    /\ GotoTask(t, "find")
    /\ UNCHANGED <<files, nextFileID, activeTorrents, mutex, ctxDone, engine,
                   torrFiles, calls, httpVars, adminVars>>

\* lines 402-476: Find the rows of the identifier and walk torr.Files()
HandleReadyFind(t) ==
    /\ tasks[t].pc = "find"
    /\ LET infoHash == tasks[t].infoHash
       IN  tasks' = [tasks EXCEPT ![t] =
               [@ EXCEPT !.pc = "apply",
                         !.staged = Staged(infoHash, dbFindFiles(files, infoHash),
                                           torrFiles[infoHash])]]
    /\ UNCHANGED <<magnets, files, nextFileID, activeTorrents, mutex, ctxDone,
                   engine, torrFiles, calls, httpVars, adminVars>>

\* lines 478-517: the create, update and delete batches
HandleReadyApply(t) ==
    /\ tasks[t].pc = "apply"
    /\ files' = ApplyStaged(files, nextFileID, tasks[t].staged)
    /\ nextFileID' = nextFileID + Len(tasks[t].staged.filesToCreate)
    /\ FinishTask(t, "ready")
    /\ UNCHANGED <<magnets, activeTorrents, mutex, ctxDone, engine, torrFiles,
                   calls, httpVars, adminVars>>

-----------------------------------------------------------------------------
(* Reconciliation runs: MaxPasses goroutines of one identifier, each at    *)
(* the call of handleTorrentReady, run one after the other over a catalog  *)
(* that an earlier pass over some file list left behind.                   *)

SyncID == extractInfoHash(UriOther)

\* config.Config with the WebDAV authentication switched off
AuthDisabled ==
    [Auth |-> [Enabled |-> FALSE, Username |-> <<"u">>, Password |-> <<"p">>]]

NoRequest == [method |-> NoMethod, magnetID |-> <<>>, dir |-> FALSE, filePath |-> <<>>,
              rangeHeader |-> <<>>, ifNoneMatch |-> <<>>, authorization |-> <<>>]
NoResponse ==
    [status |-> 0, contentLength |-> -1, contentRange |-> <<>>, etag |-> <<>>,
     cacheControl |-> "", contentType |-> "", copied |-> 0, panic |-> FALSE]

SyncedMagnet(infoHash, magnetURI, list) ==
    [NewMagnet(infoHash, magnetURI) EXCEPT !.Name = "torrent",
                                           !.TotalSize = SumLengths(list),
                                           !.FileCount = Len(list),
                                           !.Status = "ready"]

InitSync ==
    \E prior \in FileLists(MaxPrior), reported \in FileLists(MaxReported) :
        LET sg == Staged(SyncID, {}, prior)
        IN  /\ magnets = {SyncedMagnet(SyncID, UriOther, prior)}
            /\ files = ApplyStaged({}, 1, sg)
            /\ nextFileID = 1 + Len(sg.filesToCreate)
            /\ activeTorrents = [h \in InfoHashes |-> IF h = SyncID THEN h ELSE Nil]
            /\ mutex = [writer |-> NoHolder, readers |-> {}]
            /\ ctxDone = FALSE
            /\ engine = [h \in InfoHashes |-> IF h = SyncID THEN "info" ELSE "none"]
            /\ torrFiles = [h \in InfoHashes |-> IF h = SyncID THEN reported ELSE <<>>]
            /\ calls = [c \in 1..MaxCalls |-> IdleCall]
            /\ tasks = [t \in 1..MaxPasses |->
                           [NewTask(UriOther, SyncID) EXCEPT !.pc = "ready"]]
            /\ req = NoRequest
            /\ resp = NoResponse
            /\ pendingAccess = [h \in InfoHashes |-> 0]
            /\ stopPc = "idle"
            /\ removing = {}
            /\ startPc = "done"
            /\ cfg = AuthDisabled

NextSync ==
    \E t \in 1..Len(tasks) :
        /\ \A u \in 1..(t - 1) : tasks[u].pc = "done"
        /\ \/ HandleReadyUpdate(t)
           \/ HandleReadyFind(t)
           \/ HandleReadyApply(t)

SpecSync == InitSync /\ [][NextSync]_vars

\* the reported list of the identifier under reconciliation, and its rows
Reported == torrFiles[SyncID]
SyncRows == dbFindFiles(files, SyncID)

ReportedPaths == { Reported[i].path : i \in 1..Len(Reported) }
FirstPos(path) == CHOOSE i \in 1..Len(Reported) :
                      /\ Reported[i].path = path
                      /\ \A j \in 1..(i - 1) : Reported[j].path # path

\* the row a path of the reported list is to have, whatever its key
ExpectedRow(path) ==
    [MagnetID |-> SyncID, FilePath |-> path,
     FileSize |-> Reported[FirstPos(path)].length, FileIndex |-> FirstPos(path) - 1,
     MimeType |-> ServiceGetMimeType(path)]

Unkeyed(f) == [MagnetID |-> f.MagnetID, FilePath |-> f.FilePath, FileSize |-> f.FileSize,
               FileIndex |-> f.FileIndex, MimeType |-> f.MimeType]

SeqRange(q) == { q[i] : i \in 1..Len(q) }

\* C4: a second (and any later) pass over an unchanged reported list stages
\* no create, no update and no delete, and its apply step leaves the files
\* table as it was.
C4_SecondPassStagesNothing ==
    /\ [](\A t \in 2..Len(tasks) :
            tasks[t].pc \in {"apply", "done"} => tasks[t].staged = NoStaged)
    /\ [][\A t \in 2..Len(tasks) :
            (tasks[t].pc = "apply" /\ tasks'[t].pc = "done")
                => files' = files /\ nextFileID' = nextFileID]_vars

\* a second pass has run after a first one that created, updated and deleted
C4_Witness ==
    /\ Len(tasks) >= 2
    /\ tasks[2].pc = "done"
    /\ tasks[1].staged.filesToCreate # <<>>
    /\ tasks[1].staged.filesToUpdate # <<>>
    /\ tasks[1].staged.filesToDelete # {}

\* C5: after a pass the rows of the identifier are exactly one row per
\* distinct reported path, with the reported length, the position in the
\* reported list as index and the path's media type; the pass staged for
\* deletion exactly the rows of paths no longer reported, for update exactly
\* the rows that differ, and for creation exactly the paths without a row.
C5_ReconciliationCorrect ==
    /\ tasks[1].pc = "apply" =>
          LET sg == tasks[1].staged
          IN  /\ sg.filesToDelete = { f.ID : f \in {g \in SyncRows : g.FilePath \notin ReportedPaths} }
              /\ { f.ID : f \in SeqRange(sg.filesToUpdate) } =
                    { f.ID : f \in {g \in SyncRows : /\ g.FilePath \in ReportedPaths
                                                      /\ Unkeyed(g) # ExpectedRow(g.FilePath)} }
              /\ { f.FilePath : f \in SeqRange(sg.filesToCreate) } =
                    ReportedPaths \ { g.FilePath : g \in SyncRows }
    /\ tasks[1].pc = "done" =>
          /\ { Unkeyed(f) : f \in SyncRows } = { ExpectedRow(p) : p \in ReportedPaths }
          /\ Cardinality(SyncRows) = Cardinality(ReportedPaths)

\* the example of the claim: prior {a:10, b:20}, reported <<b:25, c:5>>
C5_Witness ==
    /\ Reported = << [path |-> PathB, length |-> 25], [path |-> PathC, length |-> 5] >>
    /\ tasks[1].pc = "done"
    /\ tasks[1].staged.filesToDelete = {1}
    /\ tasks[1].staged.filesToUpdate =
          << [ID |-> 2, MagnetID |-> SyncID, FilePath |-> PathB, FileSize |-> 25,
              FileIndex |-> 0, MimeType |-> "application/octet-stream"] >>
    /\ files = { [ID |-> 2, MagnetID |-> SyncID, FilePath |-> PathB, FileSize |-> 25,
                  FileIndex |-> 0, MimeType |-> "application/octet-stream"],
                 [ID |-> 3, MagnetID |-> SyncID, FilePath |-> PathC, FileSize |-> 5,
                  FileIndex |-> 1, MimeType |-> "text/plain"] }

\* the paths the reported list holds more than once
DuplicatePaths ==
    { p \in ReportedPaths : Cardinality({i \in 1..Len(Reported) : Reported[i].path = p}) > 1 }

\* C6: a path reported more than once is staged at most once by a pass and
\* ends with exactly one row, which has the index and the length of the
\* path's first occurrence.
C6_DuplicatePathDefense ==
    \A p \in DuplicatePaths :
        /\ \A t \in 1..Len(tasks) :
              Cardinality({ i \in 1..Len(tasks[t].staged.filesToCreate) :
                              tasks[t].staged.filesToCreate[i].FilePath = p })
              + Cardinality({ i \in 1..Len(tasks[t].staged.filesToUpdate) :
                              tasks[t].staged.filesToUpdate[i].FilePath = p }) <= 1
        /\ tasks[1].pc = "done" =>
              \E f \in SyncRows :
                  /\ { g \in SyncRows : g.FilePath = p } = {f}
                  /\ f.FileIndex = FirstPos(p) - 1
                  /\ f.FileSize = Reported[FirstPos(p)].length

\* a pass over <<a:10, b:20, b:25>> on a catalog without b
C6_Witness ==
    /\ Reported = << [path |-> PathA, length |-> 10], [path |-> PathB, length |-> 20],
                     [path |-> PathB, length |-> 25] >>
    /\ tasks[1].pc = "done"
    /\ Len(tasks[1].staged.filesToCreate) = 1
    /\ \E f \in files : f.FilePath = PathB /\ f.FileIndex = 1 /\ f.FileSize = 20

-----------------------------------------------------------------------------
(* Number formatting and parsing (fmt, strconv).                           *)

Digits == <<"0", "1", "2", "3", "4", "5", "6", "7", "8", "9",
            "a", "b", "c", "d", "e", "f">>

\* fmt "%d"
RECURSIVE FormatInt(_)
FormatInt(n) ==
    IF n < 0 THEN <<"-">> \o FormatInt(-n)
    ELSE IF n < 10 THEN <<Digits[n + 1]>>
    ELSE FormatInt(n \div 10) \o <<Digits[(n % 10) + 1]>>

\* fmt "%x" of a non-negative number
RECURSIVE FormatHex(_)
FormatHex(n) ==
    IF n < 16 THEN <<Digits[n + 1]>>
    ELSE FormatHex(n \div 16) \o <<Digits[(n % 16) + 1]>>

DigitValue(c) == IF \E d \in 1..10 : Digits[d] = c
                 THEN (CHOOSE d \in 1..10 : Digits[d] = c) - 1
                 ELSE -1

RECURSIVE DigitsValue(_)
DigitsValue(s) ==
    IF s = <<>> THEN 0
    ELSE DigitsValue(SubSeq(s, 1, Len(s) - 1)) * 10 + DigitValue(s[Len(s)])

\* strconv.ParseInt(s, 10, 64): an optional sign and at least one decimal digit
ParseInt(s) ==
    LET signed == s # <<>> /\ s[1] \in {"+", "-"}
        body == IF signed THEN Tail(s) ELSE s
    IN  IF body = <<>> \/ \E i \in 1..Len(body) : DigitValue(body[i]) < 0
        THEN [err |-> TRUE, val |-> 0]
        ELSE [err |-> FALSE,
              val |-> IF signed /\ s[1] = "-" THEN 0 - DigitsValue(body)
                      ELSE DigitsValue(body)]

\* strings.Split(s, sep) for a one-character sep
RECURSIVE Split(_, _)
Split(s, sep) ==
    IF \A i \in 1..Len(s) : s[i] # sep THEN <<s>>
    ELSE LET i == CHOOSE k \in 1..Len(s) : s[k] = sep /\ \A j \in 1..(k - 1) : s[j] # sep
         IN  <<SubSeq(s, 1, i - 1)>> \o Split(SubSeq(s, i + 1, Len(s)), sep)

-----------------------------------------------------------------------------
(* The WebDAV handler: parseRangeHeader, GetFileStream, the conditional    *)
(* request and handleGet.                                                  *)

BytesEq == <<"b", "y", "t", "e", "s", "=">>

RangeError == [err |-> TRUE, start |-> 0, end |-> 0]

parseRangeHeader(rangeHeader) ==
    IF ~HasPrefix(rangeHeader, BytesEq) THEN RangeError
    ELSE LET rangeStr == SubSeq(rangeHeader, Len(BytesEq) + 1, Len(rangeHeader))
             parts == Split(rangeStr, "-")
         IN  IF Len(parts) # 2 THEN RangeError
             ELSE LET start == ParseInt(parts[1])
                      end == IF parts[2] # <<>> THEN ParseInt(parts[2])
                             ELSE [err |-> FALSE, val |-> 0]
                  IN  IF start.err \/ end.err THEN RangeError
                      ELSE [err |-> FALSE, start |-> start.val, end |-> end.val]

\* handleGet lines 804-811: start and end stay 0 without a header or on a parse error
RequestRange(r) ==
    IF r.rangeHeader # <<>> /\ ~parseRangeHeader(r.rangeHeader).err
    THEN [start |-> parseRangeHeader(r.rangeHeader).start,
          end |-> parseRangeHeader(r.rangeHeader).end]
    ELSE [start |-> 0, end |-> 0]

\* TorrentService.GetTorrent: the map lookup under the read lock
GetTorrent(infoHash) ==
    IF infoHash \in DOMAIN activeTorrents THEN activeTorrents[infoHash] ELSE Nil

NoFile == [path |-> <<>>, length |-> 0]

\* TorrentService.GetFileStream: the error, or the file and the reader's offset
GetFileStream(infoHash, filePath, start, end) ==
    LET torr == GetTorrent(infoHash)
        fail(msg) == [err |-> msg, file |-> NoFile, offset |-> 0]
    IN  IF torr = Nil THEN fail("torrent not found")
        ELSE IF engine[torr] # "info" THEN fail("torrent not ready")
        ELSE IF Len(torrFiles[torr]) = 0 THEN fail("no files in torrent")
        ELSE LET hits == {i \in 1..Len(torrFiles[torr]) : torrFiles[torr][i].path = filePath}
             IN  IF hits = {} THEN fail("file not found")
                 ELSE [err |-> "",
                       file |-> torrFiles[torr][CHOOSE i \in hits : \A j \in hits : i <= j],
                       offset |-> IF start > 0 THEN start ELSE 0]

\* filePath[strings.LastIndex(filePath, "."):], which panics when there is no dot
DotSuffix(filePath) ==
    IF LastIndex(filePath, ".") < 0 THEN [panic |-> TRUE, ext |-> <<>>]
    ELSE [panic |-> FALSE, ext |-> ToLower(SliceFrom(filePath, LastIndex(filePath, ".")))]

VideoExtensions ==
    { <<".", "m", "p", "4">>, <<".", "m", "k", "v">>, <<".", "a", "v", "i">>,
      <<".", "m", "o", "v">>, <<".", "w", "e", "b", "m">>, <<".", "f", "l", "v">>,
      <<".", "w", "m", "v">>, <<".", "m", "4", "v">>, <<".", "3", "g", "p">> }

isVideoFile(filePath) ==
    [panic |-> DotSuffix(filePath).panic,
     val |-> ~DotSuffix(filePath).panic /\ DotSuffix(filePath).ext \in VideoExtensions]

\* getMimeType of the handlers package
HandlerGetMimeType(filename) ==
    LET ext == DotSuffix(filename).ext
    IN  [panic |-> DotSuffix(filename).panic,
         val |-> CASE ext = <<".", "s", "r", "t">> -> "text/plain; charset=utf-8"
                   [] ext = <<".", "a", "s", "s">> -> "text/plain; charset=utf-8"
                   [] ext = <<".", "s", "s", "a">> -> "text/plain; charset=utf-8"
                   [] OTHER -> ServiceMimeTable(ext)]

\* generateETag: the quoted hex length of "<path>-<start>-<end>"
generateETag(filePath, start, end) ==
    LET key == filePath \o <<"-">> \o FormatInt(start) \o <<"-">> \o FormatInt(end)
    IN  <<"\"">> \o FormatHex(Len(key)) \o <<"\"">>

\* setCacheHeaders: the Cache-Control value
CacheControl(video, start, end) ==
    IF video THEN (IF start = 0 /\ end = 0 THEN "public, max-age=86400"
                   ELSE "public, max-age=1800")
    ELSE "public, max-age=3600"

\* io.CopyN(w, reader, n) from a reader at offset of a file of fileSize bytes
\* whose data the swarm delivers
CopyN(fileSize, offset, n) ==
    IF n <= 0 THEN 0 ELSE Min(n, Max(fileSize - offset, 0))

\* the ResponseWriter before the handler wrote to it
BaseResponse == NoResponse

\* serveDirectoryListing: 404 without a Magnet row, else the HTML page
ServeDirectoryListing(magnetID) ==
    IF \E m \in magnets : m.ID = magnetID
    THEN [BaseResponse EXCEPT !.status = 200, !.contentType = "text/html; charset=utf-8"]
    ELSE [BaseResponse EXCEPT !.status = 404]

\* handleGet lines 821-859, the file resolved: the conditional request, the
\* headers and the copy. A panic is answered 500 by the router's recovery.
ServeFile(r, file, start, end) ==
    LET etag == generateETag(r.filePath, start, end)
        video == isVideoFile(r.filePath)
        tagged == [BaseResponse EXCEPT !.etag = etag]
        cached == [tagged EXCEPT !.cacheControl = CacheControl(video.val, start, end)]
        mimeType == HandlerGetMimeType(r.filePath)
        fileSize == file.length
        fixedEnd == IF end = 0 \/ end >= fileSize THEN fileSize - 1 ELSE end
        partial == start > 0 \/ r.rangeHeader # <<>>
        copied == IF r.method = "GET"
                  THEN CopyN(fileSize, IF start > 0 THEN start ELSE 0, fixedEnd - start + 1)
                  ELSE 0
    IN  IF video.panic THEN [tagged EXCEPT !.status = 500, !.panic = TRUE]
        ELSE IF r.ifNoneMatch # <<>> /\ r.ifNoneMatch = etag
        THEN [cached EXCEPT !.status = 304]
        ELSE IF mimeType.panic THEN [cached EXCEPT !.status = 500, !.panic = TRUE]
        ELSE [cached EXCEPT
                !.contentType = mimeType.val,
                !.status = IF partial THEN 206 ELSE 200,
                !.contentLength = IF partial THEN fixedEnd - start + 1 ELSE fileSize,
                !.contentRange = IF partial THEN <<start, fixedEnd, fileSize>> ELSE <<>>,
                !.copied = copied]

\* handleGet: the response to request r
HandleGetResponse(r) ==
    LET rng == RequestRange(r)
        got == GetFileStream(r.magnetID, r.filePath, rng.start, rng.end)
    IN  IF r.dir THEN ServeDirectoryListing(r.magnetID)
        ELSE IF got.err # "" THEN [BaseResponse EXCEPT !.status = 404]
        ELSE ServeFile(r, got.file, rng.start, rng.end)

\* SpawnsAccessUpdate with the goroutine spawned before the file is resolved
SpawnsAccessUpdateUnresolved(r) == ~r.dir

\* whether handleGet reaches `go s.updateAccessStats(infoHash)`
SpawnsAccessUpdate(r) ==
    /\ ~r.dir
    /\ GetFileStream(r.magnetID, r.filePath, RequestRange(r).start, RequestRange(r).end).err = ""

\* WebDAVHandler.handleGet serving request r
HandleGet(r) ==
    /\ req' = r
    /\ resp' = HandleGetResponse(r)
    /\ pendingAccess' = IF SpawnsAccessUpdate(r)
                        THEN [pendingAccess EXCEPT ![r.magnetID] = @ + 1]
                        ELSE pendingAccess
    /\ UNCHANGED <<magnets, files, nextFileID, activeTorrents, mutex, ctxDone,
                   engine, torrFiles, calls, tasks, adminVars>>

\* UpdateAccessStats writing a count computed from the row as first loaded
\* instead of the SQL expression access_count + 1
UpdateAccessStatsOverwrite(infoHash) ==
    /\ pendingAccess[infoHash] > 0
    /\ pendingAccess' = [pendingAccess EXCEPT ![infoHash] = @ - 1]
    /\ magnets' = { IF m.ID = infoHash THEN [m EXCEPT !.AccessCount = 1] ELSE m
                    : m \in magnets }
    /\ UNCHANGED <<files, nextFileID, activeTorrents, mutex, ctxDone, engine,
                   torrFiles, calls, tasks, req, resp, adminVars>>

\* TorrentService.updateAccessStats, one spawned goroutine running
UpdateAccessStats(infoHash) ==
    /\ pendingAccess[infoHash] > 0
    /\ pendingAccess' = [pendingAccess EXCEPT ![infoHash] = @ - 1]
    /\ magnets' = { IF m.ID = infoHash THEN [m EXCEPT !.AccessCount = @ + 1] ELSE m
                    : m \in magnets }
    /\ UNCHANGED <<files, nextFileID, activeTorrents, mutex, ctxDone, engine,
                   torrFiles, calls, tasks, req, resp, adminVars>>

-----------------------------------------------------------------------------
(* Requests against one torrent: a request drawn from a family of Range    *)
(* and If-None-Match headers is served, and then repeated by a client that *)
(* sends back the validator it was given.                                  *)

HttpID == extractInfoHash(UriUpper)
UnknownID == <<"z">>

HttpFiles == << [path |-> PathA, length |-> 100], [path |-> PathB, length |-> 3] >>

RangeValues == (0..MaxOffset) \cup {99, 100}

RangeHeaderOf(s, e) == BytesEq \o FormatInt(s) \o <<"-">> \o FormatInt(e)

RangeHeaders ==
    {<<>>}
    \cup { RangeHeaderOf(s, e) : s \in RangeValues, e \in RangeValues }
    \cup { BytesEq \o FormatInt(s) \o <<"-">> : s \in RangeValues }
    \cup { BytesEq \o <<"-">> \o FormatInt(1),
           BytesEq \o <<"0", "-", "1", "-", "2">>,
           BytesEq \o <<"x", "-", "1">>,
           <<"i", "t", "e", "m", "s", "=", "0", "-", "1">> }

PlainRequests ==
    [method : {"GET", "HEAD"}, magnetID : {HttpID, UnknownID}, dir : {FALSE},
     filePath : Paths, rangeHeader : RangeHeaders, ifNoneMatch : {<<>>},
     authorization : {<<>>}]
    \cup [method : {"GET"}, magnetID : {HttpID, UnknownID}, dir : {TRUE},
          filePath : {<<>>}, rangeHeader : {<<>>}, ifNoneMatch : {<<>>},
          authorization : {<<>>}]

\* the validators a client may send: none, the one of the very request, the
\* one of the whole of a.mp4, and a value no response carries
Requests ==
    { [r EXCEPT !.ifNoneMatch = v] :
        r \in PlainRequests,
        v \in { <<>>, <<"W">>, generateETag(PathA, 0, 0) } }
    \cup { [r EXCEPT !.ifNoneMatch =
                generateETag(r.filePath, RequestRange(r).start, RequestRange(r).end)] :
           r \in {q \in PlainRequests : ~q.dir} }

InitHttp ==
    \E session \in {"absent", "added", "info", "nofiles"}, r \in Requests :
        LET reported == IF session = "info" THEN HttpFiles ELSE <<>>
            sg == Staged(HttpID, {}, reported)
        IN  /\ magnets = { IF session \in {"info", "nofiles"}
                           THEN SyncedMagnet(HttpID, UriUpper, reported)
                           ELSE NewMagnet(HttpID, UriUpper) }
            /\ files = ApplyStaged({}, 1, sg)
            /\ nextFileID = 1 + Len(sg.filesToCreate)
            /\ activeTorrents = [h \in InfoHashes |->
                                    IF h = HttpID /\ session # "absent" THEN h ELSE Nil]
            /\ mutex = [writer |-> NoHolder, readers |-> {}]
            /\ ctxDone = FALSE
            /\ engine = [h \in InfoHashes |->
                            IF h # HttpID THEN "none"
                            ELSE IF session \in {"info", "nofiles"} THEN "info"
                            ELSE "added"]
            /\ torrFiles = [h \in InfoHashes |-> IF h = HttpID THEN reported ELSE <<>>]
            /\ calls = [c \in 1..MaxCalls |-> IdleCall]
            /\ tasks = <<>>
            /\ req = r
            /\ resp = NoResponse
            /\ pendingAccess = [h \in InfoHashes |-> 0]
            /\ stopPc = "idle"
            /\ removing = {}
            /\ startPc = "done"
            /\ cfg = AuthDisabled

ServeRequest ==
    /\ resp = NoResponse
    /\ HandleGet(req)

Revalidate ==
    /\ resp # NoResponse
    /\ resp.etag # <<>>
    /\ req.ifNoneMatch # resp.etag
    /\ HandleGet([req EXCEPT !.ifNoneMatch = resp.etag])

NextHttp ==
    \/ ServeRequest
    \/ Revalidate
    \/ \E h \in InfoHashes : UpdateAccessStats(h)

SpecHttp == InitHttp /\ [][NextHttp]_vars

\* the file a request names, when its torrent is registered with metadata
Served == resp # NoResponse
ResolvableRequest ==
    /\ ~req.dir
    /\ GetTorrent(req.magnetID) # Nil
    /\ engine[GetTorrent(req.magnetID)] = "info"
    /\ \E i \in 1..Len(torrFiles[req.magnetID]) : torrFiles[req.magnetID][i].path = req.filePath
RequestedLength ==
    torrFiles[req.magnetID][CHOOSE i \in 1..Len(torrFiles[req.magnetID]) :
                                torrFiles[req.magnetID][i].path = req.filePath].length

\* C7: a GET carrying bytes=s-e with 0 <= s <= e < length on a resolvable
\* file (and no validator) is answered 206 with Content-Range s-e/length,
\* Content-Length e-s+1 and e-s+1 bytes copied.
C7_RangeServedExactly ==
    \A s \in RangeValues, e \in RangeValues :
        ( /\ Served
          /\ req.method = "GET"
          /\ req.ifNoneMatch = <<>>
          /\ ResolvableRequest
          /\ req.rangeHeader = RangeHeaderOf(s, e)
          /\ s <= e
          /\ e < RequestedLength )
        => /\ resp.status = 206
           /\ resp.contentRange = <<s, e, RequestedLength>>
           /\ resp.contentLength = e - s + 1
           /\ resp.copied = e - s + 1

\* C8: a GET without a Range header (and without a validator) on a
\* resolvable file of length L is answered 200 with Content-Length L, no
\* Content-Range and L bytes copied.
C8_FullFileServed ==
    ( /\ Served
      /\ req.method = "GET"
      /\ req.ifNoneMatch = <<>>
      /\ ResolvableRequest
      /\ req.rangeHeader = <<>> )
    => /\ resp.status = 200
       /\ resp.contentLength = RequestedLength
       /\ resp.contentRange = <<>>
       /\ resp.copied = RequestedLength

\* C9: a request on a resolvable file whose If-None-Match is the validator
\* of its own (path, start, end) is answered 304 and copies no byte.
C9_CacheShortCircuit ==
    ( /\ Served
      /\ ResolvableRequest
      /\ req.ifNoneMatch =
            generateETag(req.filePath, RequestRange(req).start, RequestRange(req).end) )
    => /\ resp.status = 304
       /\ resp.copied = 0

-----------------------------------------------------------------------------
(* TorrentService.Stop and APIHandler.RemoveMagnet.                        *)

StopHolder == -1

\* line 318: s.cancel()
StopCancel ==
    /\ stopPc = "idle"
    /\ ctxDone' = TRUE
    /\ stopPc' = "lock"
    /\ UNCHANGED <<magnets, files, nextFileID, activeTorrents, mutex, engine,
                   torrFiles, calls, tasks, httpVars, removing, startPc, cfg>>

\* line 320: s.mutex.Lock()
StopLock ==
    /\ stopPc = "lock"
    /\ MutexFree
    /\ mutex' = [mutex EXCEPT !.writer = StopHolder]
    /\ stopPc' = "drop"
    /\ UNCHANGED <<magnets, files, nextFileID, activeTorrents, ctxDone, engine,
                   torrFiles, calls, tasks, httpVars, removing, startPc, cfg>>

\* lines 323-333: Drop and delete every entry, close the client, Unlock
StopDropUnlock ==
    /\ stopPc = "drop"
    /\ activeTorrents' = [h \in DOMAIN activeTorrents |-> Nil]
    /\ engine' = [h \in DOMAIN engine |-> "none"]
    /\ mutex' = [mutex EXCEPT !.writer = NoHolder]
    /\ stopPc' = "done"
    /\ UNCHANGED <<magnets, files, nextFileID, ctxDone, torrFiles, calls, tasks,
                   httpVars, removing, startPc, cfg>>

\* line 720: db.Where("magnet_id = ?", magnetID).Delete(&models.File{}), for a
\* magnet the catalog lists
RemoveMagnetFiles(magnetID) ==
    /\ magnetID \notin removing
    /\ \E m \in magnets : m.ID = magnetID
    /\ files' = { f \in files : f.MagnetID # magnetID }
    /\ removing' = removing \cup {magnetID}
    /\ UNCHANGED <<magnets, nextFileID, activeTorrents, mutex, ctxDone, engine,
                   torrFiles, calls, tasks, httpVars, stopPc, startPc, cfg>>

\* lines 723-728: db.Where("id = ?", magnetID).Delete(&models.Magnet{})
RemoveMagnetRow(magnetID) ==
    /\ magnetID \in removing
    /\ magnets' = { m \in magnets : m.ID # magnetID }
    /\ removing' = removing \ {magnetID}
    /\ UNCHANGED <<files, nextFileID, activeTorrents, mutex, ctxDone, engine,
                   torrFiles, calls, tasks, httpVars, stopPc, startPc, cfg>>

-----------------------------------------------------------------------------
(* The service: callers submit URIs, the goroutines they spawn acquire the *)
(* torrents, records are removed, the service is stopped.                  *)

LifecycleFiles == << [path |-> PathA, length |-> 10] >>

Init ==
    /\ magnets = {}
    /\ files = {}
    /\ nextFileID = 1
    /\ activeTorrents = [h \in InfoHashes |-> Nil]
    /\ mutex = [writer |-> NoHolder, readers |-> {}]
    /\ ctxDone = FALSE
    /\ engine = [h \in InfoHashes |-> "none"]
    /\ torrFiles = [h \in InfoHashes |-> LifecycleFiles]
    /\ calls = [c \in 1..MaxCalls |-> IdleCall]
    /\ tasks = <<>>
    /\ req = NoRequest
    /\ resp = NoResponse
    /\ pendingAccess = [h \in InfoHashes |-> 0]
    /\ stopPc = "idle"
    /\ removing = {}
    /\ startPc = "done"
    /\ cfg = AuthDisabled

\* callers take the call records in order
NextCaller(c) == \A d \in 1..(c - 1) : calls[d].pc # "idle"

Submit ==
    \E c \in 1..MaxCalls :
        \/ \E u \in Uris : NextCaller(c) /\ AddMagnetCheck(c, u)
        \/ AddMagnetCreate(c)

Acquire ==
    \E t \in 1..Len(tasks) :
        \/ ClientAddMagnetOk(t)
        \/ TaskLock(t)
        \/ TaskInsertUnlock(t)
        \/ SelectGotInfo(t)
        \/ HandleReadyUpdate(t)
        \/ HandleReadyFind(t)
        \/ HandleReadyApply(t)

AcquireFails ==
    \E t \in 1..Len(tasks) :
        \/ ClientAddMagnetErr(t)
        \/ SelectTimeout(t)
        \/ SelectCtxDone(t)

Swarm == \E h \in InfoHashes : EngineGotInfo(h)

Remove == \E h \in InfoHashes : RemoveMagnetFiles(h) \/ RemoveMagnetRow(h)

Stop == StopCancel \/ StopLock \/ StopDropUnlock

Next == Submit \/ Acquire \/ AcquireFails \/ Swarm \/ Remove \/ Stop

Spec == Init /\ [][Next]_vars

\* the service with a swarm that delivers: no refusal, no timeout, no
\* removal, no shutdown
NextDeliver == Submit \/ Acquire \/ Swarm

SpecDeliver == Init /\ [][NextDeliver]_vars

-----------------------------------------------------------------------------
(* Submission.                                                             *)

MadeCalls == { c \in 1..MaxCalls : calls[c].pc # "idle" }

\* C1: calls with the same URI compute the same identifier, the catalog holds
\* at most one record per identifier, and a call whose existence check finds
\* a record of its identifier returns that very record, without an error,
\* leaving the catalog as it was and spawning no acquisition task.
C1_SubmissionIdempotent ==
    /\ [](/\ \A c \in MadeCalls, d \in MadeCalls :
                calls[c].magnetURI = calls[d].magnetURI
                    => calls[c].infoHash = calls[d].infoHash
          /\ \A m \in magnets, n \in magnets : m.ID = n.ID => m = n)
    /\ [][\A c \in 1..MaxCalls :
            \A m \in magnets :
                ( /\ calls[c].pc = "idle"
                  /\ calls'[c].pc # "idle"
                  /\ m.ID = calls'[c].infoHash )
                => /\ calls'[c].pc = "done"
                   /\ calls'[c].ret = {m}
                   /\ ~calls'[c].err
                   /\ calls'[c].spawned = 0
                   /\ magnets' = magnets
                   /\ tasks' = tasks]_vars

\* a second call, with another URI of the identifier the first call created
\* a record for, has returned the record of the first
C1_Witness ==
    /\ MaxCalls >= 2
    /\ calls[1].pc = "done" /\ calls[1].spawned # 0
    /\ calls[2].pc = "done" /\ calls[2].spawned = 0
    /\ calls[2].infoHash = calls[1].infoHash
    /\ calls[2].magnetURI # calls[1].magnetURI
    /\ calls[2].ret # NoRow
    /\ \A m \in calls[2].ret : m.MagnetURI = calls[1].magnetURI
    /\ Len(tasks) = 1

\* C2: every call that has returned has returned a record and no error.
C2_SubmissionNeverFails ==
    \A c \in 1..MaxCalls :
        calls[c].pc = "done" => ~calls[c].err /\ calls[c].ret # NoRow

\* C3: the step at which the wait for the metadata times out leaves the
\* record of the identifier in status error with the reason "metadata
\* timeout" and no session registered: GetTorrent of the identifier is absent.
C3_TimeoutLeavesNoSession ==
    [][\A t \in 1..Len(tasks) :
          (tasks[t].pc = "select" /\ tasks'[t].outcome = "timeout")
          => /\ \A m \in magnets' :
                    m.ID = tasks[t].infoHash
                        => m.Status = "error" /\ m.Name = "metadata timeout"
             /\ GetTorrent(tasks[t].infoHash)' = Nil]_vars

\* every call has returned and every goroutine has ended
Settled ==
    /\ \A c \in 1..MaxCalls : calls[c].pc = "done"
    /\ \A t \in 1..Len(tasks) : tasks[t].pc = "done"

DistinctIdentifiers ==
    \A c \in 1..MaxCalls, d \in 1..MaxCalls :
        c # d => calls[c].infoHash # calls[d].infoHash

Registered == { h \in DOMAIN activeTorrents : activeTorrents[h] # Nil }

\* C10: with a swarm that delivers, the service is never stuck before it has
\* settled, and MaxCalls calls of pairwise distinct identifiers leave, once
\* settled, exactly MaxCalls records, one per identifier and all ready, and
\* exactly the sessions of these identifiers in the session map.
C10_ConcurrentSubmissionsSettle ==
    /\ Settled \/ ENABLED NextDeliver
    /\ (Settled /\ DistinctIdentifiers)
       => /\ Cardinality(magnets) = MaxCalls
          /\ { m.ID : m \in magnets } = { calls[c].infoHash : c \in 1..MaxCalls }
          /\ \A m \in magnets : m.Status = "ready"
          /\ Registered = { calls[c].infoHash : c \in 1..MaxCalls }
          /\ Cardinality(Registered) = MaxCalls
          /\ MutexFree

\* calls of pairwise distinct identifiers, each with its own goroutine, have
\* settled
C10_Witness ==
    /\ Settled
    /\ DistinctIdentifiers
    /\ Len(tasks) = MaxCalls
    /\ \A t \in 1..Len(tasks) : tasks[t].outcome = "ready"

-----------------------------------------------------------------------------
(* Shutdown.                                                               *)

\* C11: once Stop has returned the session map is empty, whatever goroutines
\* were between client.AddMagnet and the map insert when it ran.
C11_StopLeavesMapEmpty == stopPc = "done" => Registered = {}

-----------------------------------------------------------------------------
(* TorrentService.Start on a catalog an earlier process left behind.       *)

MaxRestored == 2     \* records in the persisted catalog

RECURSIVE SetToSeq(_)
\* the rows of a result set in the order Find returns them
SetToSeq(S) ==
    IF S = {} THEN <<>>
    ELSE LET x == CHOOSE y \in S : TRUE
         IN  <<x>> \o SetToSeq(S \ {x})

\* restoreActiveTorrents spawning a goroutine for every row, whatever its status
RestoredMagnetsAnyStatus(tbl) == tbl

\* lines 624-627: db.Where("status = ?", "ready").Find(&magnets)
RestoredMagnets(tbl) == { m \in tbl : m.Status = "ready" }

\* lines 623-635: one `go s.addTorrentToClient(magnet.MagnetURI, magnet.ID)` per row
restoreActiveTorrents ==
    LET found == SetToSeq(RestoredMagnets(magnets))
    IN  tasks' = tasks \o [i \in 1..Len(found) |->
                              NewTask(found[i].MagnetURI, found[i].ID)]

\* lines 298-301: torrent.NewClient fails, Start returns the error
StartClientErr ==
    /\ startPc = "idle"
    /\ startPc' = "failed"
    /\ UNCHANGED <<magnets, files, nextFileID, activeTorrents, mutex, ctxDone, engine,
                   torrFiles, calls, tasks, httpVars, stopPc, removing, cfg>>

\* lines 298-311: the client is created and the ready records are restored
StartOk ==
    /\ startPc = "idle"
    /\ restoreActiveTorrents
    /\ startPc' = "done"
    /\ UNCHANGED <<magnets, files, nextFileID, activeTorrents, mutex, ctxDone, engine,
                   torrFiles, calls, httpVars, stopPc, removing, cfg>>

\* the persisted records: identifier and the URI it was submitted with
PersistedURIs == << UriUpper, UriOther, UriPlain >>
PersistedCount == Min(MaxRestored, Len(PersistedURIs))

PersistedMagnet(uri, status, prior) ==
    LET infoHash == extractInfoHash(uri)
    IN  IF status = "ready" THEN SyncedMagnet(infoHash, uri, prior)
        ELSE IF status = "error"
             THEN [NewMagnet(infoHash, uri) EXCEPT !.Status = "error",
                                                   !.Name = "metadata timeout"]
             ELSE NewMagnet(infoHash, uri)

RECURSIVE PersistedFiles(_, _, _)
\* the files table and its counter after the passes that made the first n
\* records ready
PersistedFiles(n, status, prior) ==
    IF n = 0 THEN [tbl |-> {}, next |-> 1]
    ELSE LET before == PersistedFiles(n - 1, status, prior)
             sg == Staged(extractInfoHash(PersistedURIs[n]), {}, prior)
         IN  IF status[n] = "ready"
             THEN [tbl |-> ApplyStaged(before.tbl, before.next, sg),
                   next |-> before.next + Len(sg.filesToCreate)]
             ELSE before

InitRecover ==
    \E status \in [1..PersistedCount -> {"absent", "pending", "ready", "error"}],
       prior \in FileLists(1) :
        /\ magnets = { PersistedMagnet(PersistedURIs[n], status[n], prior) :
                          n \in { k \in 1..PersistedCount : status[k] # "absent" } }
        /\ files = PersistedFiles(PersistedCount, status, prior).tbl
        /\ nextFileID = PersistedFiles(PersistedCount, status, prior).next
        /\ activeTorrents = [h \in InfoHashes |-> Nil]
        /\ mutex = [writer |-> NoHolder, readers |-> {}]
        /\ ctxDone = FALSE
        /\ engine = [h \in InfoHashes |-> "none"]
        /\ torrFiles = [h \in InfoHashes |-> LifecycleFiles]
        /\ calls = [c \in 1..MaxCalls |-> IdleCall]
        /\ tasks = <<>>
        /\ req = NoRequest
        /\ resp = NoResponse
        /\ pendingAccess = [h \in InfoHashes |-> 0]
        /\ stopPc = "idle"
        /\ removing = {}
        /\ startPc = "idle"
        /\ cfg = AuthDisabled

Start == StartOk \/ StartClientErr

\* a restart with a swarm that delivers the metadata of every torrent
NextRecover == Start \/ Acquire \/ Swarm

SpecRecover == InitRecover /\ [][NextRecover]_vars

\* a restart in which the client may refuse a URI and the wait may time out
RecoverFails == \E t \in 1..Len(tasks) : ClientAddMagnetErr(t) \/ SelectTimeout(t)

NextRestart == NextRecover \/ RecoverFails

SpecRestart == InitRecover /\ [][NextRestart]_vars

ReadyIDs == { m.ID : m \in { n \in magnets : n.Status = "ready" } }

\* the rows a pass leaves for a list without repeated paths
ReportedRows(infoHash) ==
    { [MagnetID |-> infoHash, FilePath |-> torrFiles[infoHash][i].path,
       FileSize |-> torrFiles[infoHash][i].length, FileIndex |-> i - 1,
       MimeType |-> ServiceGetMimeType(torrFiles[infoHash][i].path)] :
          i \in 1..Len(torrFiles[infoHash]) }

RecoverSettled ==
    /\ startPc # "idle"
    /\ \A t \in 1..Len(tasks) : tasks[t].pc = "done"

\* C12: Start spawns one acquisition goroutine for each record of status
\* ready, with the record's URI and identifier, and none for any other
\* record; with a swarm that delivers, the restart is never stuck before it
\* has settled, and once settled every ready record has its session
\* registered and its file rows equal to the reported list.
C12_RecoveryRestoresReady ==
    /\ [][(startPc = "idle" /\ startPc' = "done")
            => /\ Len(tasks') = Cardinality(ReadyIDs)
               /\ { tasks'[t].infoHash : t \in 1..Len(tasks') } = ReadyIDs
               /\ \A t \in 1..Len(tasks') :
                     /\ tasks'[t].pc = "start"
                     /\ \E m \in magnets : /\ m.ID = tasks'[t].infoHash
                                           /\ m.MagnetURI = tasks'[t].magnetURI
                                           /\ m.Status = "ready"]_vars
    /\ [](RecoverSettled \/ ENABLED NextRecover)
    /\ []((RecoverSettled /\ startPc = "done")
            => \A h \in ReadyIDs \cup { tasks[t].infoHash : t \in 1..Len(tasks) } :
                  /\ h \in ReadyIDs
                  /\ GetTorrent(h) = h
                  /\ { Unkeyed(f) : f \in dbFindFiles(files, h) } = ReportedRows(h)
                  /\ Cardinality(dbFindFiles(files, h)) = Len(torrFiles[h]))

\* a restart over a catalog with a ready record whose rows differ from the
\* reported list and a record that is not ready has settled
C12_Witness ==
    /\ RecoverSettled /\ startPc = "done"
    /\ Len(tasks) = 1
    /\ tasks[1].outcome = "ready"
    /\ tasks[1].staged # NoStaged
    /\ \E m \in magnets : m.Status # "ready"
    /\ Cardinality(magnets) = 2

-----------------------------------------------------------------------------
(* The catalog under overlapping passes, removal and failure.              *)

\* C13: no two rows of the files table have the same owner and path.
C13_OwnerPathUnique ==
    \A f \in files, g \in files :
        (f.MagnetID = g.MagnetID /\ f.FilePath = g.FilePath) => f = g

\* C14: outside a running removal every row of the files table is owned by
\* a record of the magnets table.
C14_RemovalCascades ==
    \A f \in files :
        f.MagnetID \notin removing => \E m \in magnets : m.ID = f.MagnetID

-----------------------------------------------------------------------------
(* The outcome of a file request.                                          *)

\* the validator handleConditionalRequest computes for the request served
RequestETag == generateETag(req.filePath, RequestRange(req).start, RequestRange(req).end)

ResolveError ==
    GetFileStream(req.magnetID, req.filePath, RequestRange(req).start,
                  RequestRange(req).end).err

\* C15: a file request that does not resolve ends not-found without the
\* conditional check (no ETag, no Cache-Control, no byte); one that resolves
\* has the conditional check evaluated and ends either not-modified, on a
\* matching validator and without a byte, or streaming (200 or 206), on a
\* validator that does not match.
C15_RequestStateMachine ==
    (Served /\ ~req.dir)
    => /\ ~ResolvableRequest
            => /\ resp.status = 404
               /\ resp.etag = <<>> /\ resp.cacheControl = ""
               /\ resp.copied = 0
       /\ ResolvableRequest
            => /\ resp.etag = RequestETag
               /\ \/ /\ resp.status = 304
                     /\ req.ifNoneMatch = RequestETag
                     /\ resp.copied = 0
                  \/ /\ resp.status \in {200, 206}
                     /\ req.ifNoneMatch # RequestETag

\* C16: a file request whose identifier has no session, whose session has
\* no metadata, or whose path is the path of no reported file is answered
\* 404 with no byte copied, and no access update is spawned or applied.
C16_ResolutionFailureIs404 ==
    (Served /\ ~req.dir /\ ~ResolvableRequest)
    => /\ ResolveError # ""
       /\ GetTorrent(req.magnetID) = Nil => ResolveError = "torrent not found"
       /\ (GetTorrent(req.magnetID) # Nil /\ engine[GetTorrent(req.magnetID)] # "info")
             => ResolveError = "torrent not ready"
       /\ resp.status = 404
       /\ resp.copied = 0 /\ resp.contentLength = -1
       /\ \A h \in InfoHashes : pendingAccess[h] = 0
       /\ \A m \in magnets : m.AccessCount = 0

\* a GET for a path the session, which has its metadata, does not report
C16_Witness ==
    /\ Served /\ ~req.dir /\ req.method = "GET"
    /\ GetTorrent(req.magnetID) # Nil
    /\ engine[GetTorrent(req.magnetID)] = "info"
    /\ torrFiles[req.magnetID] # <<>>
    /\ ~ResolvableRequest
    /\ resp.status = 404

-----------------------------------------------------------------------------
(* Acquisition failures and the status of a record.                        *)

\* C17: the step at which the client refuses the URI ends the goroutine with
\* the record of the identifier in status error under the client's reason;
\* it leaves the session map, the client and the files table as they were,
\* with no session of the identifier when no other goroutine acquires it,
\* stages nothing and spawns nothing; a goroutine that has ended stays so.
C17_EngineRejectionTerminal ==
    /\ [][\A t \in 1..Len(tasks) :
            (tasks[t].pc = "start" /\ tasks'[t].pc = "done")
            => /\ tasks'[t].outcome = "rejected"
               /\ \A m \in magnets' :
                     m.ID = tasks[t].infoHash
                         => m.Status = "error" /\ m.Name = "engine error"
               /\ activeTorrents' = activeTorrents
               /\ (\A u \in 1..Len(tasks) :
                      u # t => tasks[u].infoHash # tasks[t].infoHash)
                     => GetTorrent(tasks[t].infoHash)' = Nil
               /\ engine' = engine
               /\ files' = files /\ nextFileID' = nextFileID
               /\ tasks'[t].staged = NoStaged
               /\ Len(tasks') = Len(tasks)]_vars
    /\ [][\A t \in 1..Len(tasks) : tasks[t].pc = "done" => tasks'[t] = tasks[t]]_vars
    /\ [](\A t \in 1..Len(tasks) :
            tasks[t].outcome = "rejected"
                => tasks[t].pc = "done" /\ tasks[t].staged = NoStaged)

\* the client has refused the URI of a record, which is in status error
C17_Witness ==
    \E t \in 1..Len(tasks) :
        /\ tasks[t].outcome = "rejected"
        /\ \E m \in magnets : /\ m.ID = tasks[t].infoHash
                              /\ m.Status = "error"
                              /\ m.Name = "engine error"
        /\ GetTorrent(tasks[t].infoHash) = Nil

\* C18: a record's status is pending, ready or error, and the only status
\* changes of a record are pending to ready and pending to error.
C18_StatusTransitions ==
    /\ [](\A m \in magnets : m.Status \in {"pending", "ready", "error"})
    /\ [][\A m \in magnets, n \in magnets' :
            (m.ID = n.ID /\ m.Status # n.Status)
                => m.Status = "pending" /\ n.Status \in {"ready", "error"}]_vars

\* C19: a call that returned the record of a failed acquisition, the record
\* being in status error, has spawned an acquisition goroutine.
C19_ResubmitAfterError ==
    \A c \in 1..MaxCalls :
        ( /\ calls[c].pc = "done"
          /\ ~calls[c].err
          /\ \E m \in calls[c].ret : m.Status = "error" )
        => calls[c].spawned # 0

\* C20: the step of a holder of the mutex from Lock to Unlock performs no
\* call of the torrent client.
C20_NoEngineCallUnderLock ==
    [][(mutex.writer # NoHolder /\ mutex'.writer = NoHolder) => engine' = engine]_vars

-----------------------------------------------------------------------------
(* The /webdav route: middleware.AuthMiddleware in front of the handler.   *)

Base64Alphabet ==
    << "A", "B", "C", "D", "E", "F", "G", "H", "I", "J", "K", "L", "M", "N", "O", "P",
       "Q", "R", "S", "T", "U", "V", "W", "X", "Y", "Z", "a", "b", "c", "d", "e", "f",
       "g", "h", "i", "j", "k", "l", "m", "n", "o", "p", "q", "r", "s", "t", "u", "v",
       "w", "x", "y", "z", "0", "1", "2", "3", "4", "5", "6", "7", "8", "9", "+", "/" >>

Base64Valid(c) == \E i \in 1..Len(Base64Alphabet) : Base64Alphabet[i] = c
Base64Value(c) == (CHOOSE i \in 1..Len(Base64Alphabet) : Base64Alphabet[i] = c) - 1

\* string(payload) for one byte; the bytes no header of the model spells are "?"
ByteChar(b) ==
    IF b = 58 THEN ":"
    ELSE IF b = 112 THEN "p"
    ELSE IF b = 113 THEN "q"
    ELSE IF b = 117 THEN "u"
    ELSE IF b = 120 THEN "x"
    ELSE "?"

\* one quantum of four characters, the last of the input or not
Base64Quantum(q, last) ==
    LET bad == [err |-> TRUE, val |-> <<>>]
        pad == IF q[4] # "=" THEN 0 ELSE IF q[3] # "=" THEN 1 ELSE 2
        v(i) == IF i <= 4 - pad THEN Base64Value(q[i]) ELSE 0
        n == v(1) * 262144 + v(2) * 4096 + v(3) * 64 + v(4)
        bytes == << n \div 65536, (n \div 256) % 256, n % 256 >>
    IN  IF pad > 0 /\ ~last THEN bad
        ELSE IF \E i \in 1..(4 - pad) : ~Base64Valid(q[i]) THEN bad
        ELSE [err |-> FALSE,
              val |-> [i \in 1..(3 - pad) |-> ByteChar(bytes[i])]]

RECURSIVE Base64Decode(_)
\* base64.StdEncoding.DecodeString: padded quanta of four characters
Base64Decode(s) ==
    IF s = <<>> THEN [err |-> FALSE, val |-> <<>>]
    ELSE IF Len(s) < 4 THEN [err |-> TRUE, val |-> <<>>]
    ELSE LET head == Base64Quantum(SubSeq(s, 1, 4), Len(s) = 4)
             rest == Base64Decode(SubSeq(s, 5, Len(s)))
         IN  IF head.err \/ rest.err THEN [err |-> TRUE, val |-> <<>>]
             ELSE [err |-> FALSE, val |-> head.val \o rest.val]

\* strings.SplitN(s, sep, 2)
SplitN2(s, sep) ==
    IF \A i \in 1..Len(s) : s[i] # sep THEN <<s>>
    ELSE LET i == CHOOSE k \in 1..Len(s) : s[k] = sep /\ \A j \in 1..(k - 1) : s[j] # sep
         IN  << SubSeq(s, 1, i - 1), SubSeq(s, i + 1, Len(s)) >>

BasicScheme == << "B", "a", "s", "i", "c" >>

\* AuthMiddlewareOutcome comparing the username only
AuthMiddlewareOutcomeUserOnly(c, authHeader) ==
    IF ~c.Auth.Enabled THEN "next"
    ELSE IF authHeader = <<>> THEN "abort"
    ELSE LET parts == SplitN2(authHeader, " ")
         IN  IF Len(parts) # 2 THEN "abort"
             ELSE IF parts[1] # BasicScheme THEN "abort"
             ELSE LET payload == Base64Decode(parts[2])
                      pair == SplitN2(payload.val, ":")
                  IN  IF payload.err THEN "abort"
                      ELSE IF Len(pair) # 2 THEN "abort"
                      ELSE IF pair[1] # c.Auth.Username THEN "abort"
                      ELSE "next"

\* AuthMiddleware: c.Next() or c.AbortWithStatus(http.StatusUnauthorized)
AuthMiddlewareOutcome(c, authHeader) ==
    IF ~c.Auth.Enabled THEN "next"
    ELSE IF authHeader = <<>> THEN "abort"
    ELSE LET parts == SplitN2(authHeader, " ")
         IN  IF Len(parts) # 2 THEN "abort"
             ELSE IF parts[1] # BasicScheme THEN "abort"
             ELSE LET payload == Base64Decode(parts[2])
                      pair == SplitN2(payload.val, ":")
                  IN  IF payload.err THEN "abort"
                      ELSE IF Len(pair) # 2 THEN "abort"
                      ELSE IF pair[1] # c.Auth.Username \/ pair[2] # c.Auth.Password
                           THEN "abort"
                      ELSE "next"

Unauthorized == [NoResponse EXCEPT !.status = 401]

\* setupRouter: the group uses the middleware only when cfg.Auth.Enabled
RoutePasses == ~cfg.Auth.Enabled \/ AuthMiddlewareOutcome(cfg, req.authorization) = "next"

\* the middleware aborts the request
AuthAbort ==
    /\ resp = NoResponse
    /\ ~RoutePasses
    /\ resp' = Unauthorized
    /\ UNCHANGED <<magnets, files, nextFileID, activeTorrents, mutex, ctxDone, engine,
                   torrFiles, calls, tasks, req, pendingAccess, adminVars>>

\* the request reaches gin.WrapH(webdavHandler)
AuthNext ==
    /\ resp = NoResponse
    /\ RoutePasses
    /\ HandleGet(req)

AuthEnabled(username, password) ==
    [Auth |-> [Enabled |-> TRUE, Username |-> username, Password |-> password]]

AuthConfigs ==
    { AuthDisabled, AuthEnabled(<<"u">>, <<"p">>), AuthEnabled(<<"u">>, <<"p", ":">>),
      AuthEnabled(<<"x">>, <<"p">>) }

BasicHeader(enc) == BasicScheme \o <<" ">> \o enc

\* Authorization headers: none; Basic with u:p, u:q, x:p, u:p:, u (no colon),
\* u: and :p; a lower-case scheme, another scheme, no space, two spaces, the
\* bare payload, a payload of three characters, one with a character outside
\* the alphabet, and one with padding inside
AuthHeaders ==
    { <<>>,
      BasicHeader(<<"d", "T", "p", "w">>),
      BasicHeader(<<"d", "T", "p", "x">>),
      BasicHeader(<<"e", "D", "p", "w">>),
      BasicHeader(<<"d", "T", "p", "w", "O", "g", "=", "=">>),
      BasicHeader(<<"d", "Q", "=", "=">>),
      BasicHeader(<<"d", "T", "o", "=">>),
      BasicHeader(<<"O", "n", "A", "=">>),
      <<"b", "a", "s", "i", "c", " ", "d", "T", "p", "w">>,
      <<"B", "e", "a", "r", "e", "r", " ", "d", "T", "p", "w">>,
      BasicScheme,
      BasicHeader(<<" ", "d", "T", "p", "w">>),
      <<"d", "T", "p", "w">>,
      BasicHeader(<<"d", "T", "p">>),
      BasicHeader(<<"d", "T", "!", "w">>),
      BasicHeader(<<"d", "Q", "=", "=", "d", "T", "p", "w">>) }

AuthRequests ==
    [method : {"GET"}, magnetID : {HttpID, UnknownID}, dir : {FALSE},
     filePath : {PathA}, rangeHeader : {<<>>, RangeHeaderOf(1, 2)}, ifNoneMatch : {<<>>},
     authorization : AuthHeaders]

InitAuth ==
    \E c \in AuthConfigs, r \in AuthRequests :
        LET sg == Staged(HttpID, {}, HttpFiles)
        IN  /\ magnets = { SyncedMagnet(HttpID, UriUpper, HttpFiles) }
            /\ files = ApplyStaged({}, 1, sg)
            /\ nextFileID = 1 + Len(sg.filesToCreate)
            /\ activeTorrents = [h \in InfoHashes |-> IF h = HttpID THEN h ELSE Nil]
            /\ mutex = [writer |-> NoHolder, readers |-> {}]
            /\ ctxDone = FALSE
            /\ engine = [h \in InfoHashes |-> IF h = HttpID THEN "info" ELSE "none"]
            /\ torrFiles = [h \in InfoHashes |-> IF h = HttpID THEN HttpFiles ELSE <<>>]
            /\ calls = [k \in 1..MaxCalls |-> IdleCall]
            /\ tasks = <<>>
            /\ req = r
            /\ resp = NoResponse
            /\ pendingAccess = [h \in InfoHashes |-> 0]
            /\ stopPc = "idle"
            /\ removing = {}
            /\ startPc = "done"
            /\ cfg = c

NextAuth ==
    \/ AuthAbort
    \/ AuthNext
    \/ \E h \in InfoHashes : UpdateAccessStats(h)

SpecAuth == InitAuth /\ [][NextAuth]_vars

\* the header is "Basic " and the base64 of username ":" password
CarriesCredentials ==
    /\ Len(req.authorization) >= 6
    /\ SubSeq(req.authorization, 1, 6) = BasicScheme \o <<" ">>
    /\ LET payload == Base64Decode(SubSeq(req.authorization, 7, Len(req.authorization)))
       IN  /\ ~payload.err
           /\ payload.val = cfg.Auth.Username \o <<":">> \o cfg.Auth.Password

\* C21: with authentication enabled a request is passed to the handler
\* exactly when its Authorization header is Basic with the configured
\* username and password, and is otherwise answered 401 with nothing of the
\* handler done; with authentication disabled every request is passed.
C21_AuthGate ==
    Served
    => /\ cfg.Auth.Enabled => (resp.status # 401 <=> CarriesCredentials)
       /\ ~cfg.Auth.Enabled => resp.status # 401
       /\ resp.status # 401 => resp = HandleGetResponse(req)
       /\ resp.status = 401
             => /\ resp = Unauthorized
                /\ \A h \in InfoHashes : pendingAccess[h] = 0
                /\ \A m \in magnets : m.AccessCount = 0

\* the request with "Basic dTpw" has been served its file under the
\* configuration u / p
C21_Witness ==
    /\ Served
    /\ cfg = AuthEnabled(<<"u">>, <<"p">>)
    /\ req.authorization = BasicHeader(<<"d", "T", "p", "w">>)
    /\ req.magnetID = HttpID
    /\ resp.status = 200

-----------------------------------------------------------------------------
(* The three-way race of addTorrentToClient.                               *)

\* C22: the step by which a goroutine waiting in the select ends on the
\* shutdown signal changes no record and no file row, stages nothing and
\* leaves the session map as it was; such a goroutine never ran the
\* reconciliation.
C22_AbortIsSilent ==
    /\ [][\A t \in 1..Len(tasks) :
            (tasks[t].pc = "select" /\ tasks'[t].outcome = "aborted")
            => /\ ctxDone
               /\ magnets' = magnets
               /\ files' = files /\ nextFileID' = nextFileID
               /\ activeTorrents' = activeTorrents
               /\ tasks'[t].pc = "done"
               /\ tasks'[t].staged = NoStaged]_vars
    /\ [](\A t \in 1..Len(tasks) :
            tasks[t].outcome = "aborted"
                => tasks[t].pc = "done" /\ tasks[t].staged = NoStaged)

\* a goroutine has ended on the shutdown signal, its record still pending
\* and without a file row
C22_Witness ==
    \E t \in 1..Len(tasks) :
        /\ tasks[t].outcome = "aborted"
        /\ \E m \in magnets : m.ID = tasks[t].infoHash /\ m.Status = "pending"
        /\ dbFindFiles(files, tasks[t].infoHash) = {}

\* C23: a goroutine leaves the select by exactly one branch: to
\* handleTorrentReady, with the metadata there and the record untouched by
\* that step; by the timeout, ending with the record in error; or by the
\* shutdown, ending with the record untouched. Once in handleTorrentReady it
\* only ends with outcome ready and none of its steps marks the record
\* error; once ended it never moves again.
C23_OneOutcomePerTask ==
    /\ [](\A t \in 1..Len(tasks) :
            /\ tasks[t].outcome \in {"none", "ready", "timeout", "aborted", "rejected"}
            /\ tasks[t].outcome = "none" <=> tasks[t].pc # "done")
    /\ [][\A t \in 1..Len(tasks) :
            LET h == tasks[t].infoHash
            IN  /\ (tasks[t].pc = "select" /\ tasks'[t].pc # "select")
                   => \/ /\ tasks'[t].pc = "ready"
                         /\ engine[h] = "info"
                         /\ magnets' = magnets
                      \/ /\ tasks'[t].pc = "done" /\ tasks'[t].outcome = "timeout"
                         /\ tasks'[t].staged = NoStaged
                         /\ \A m \in magnets' : m.ID = h => m.Status = "error"
                         /\ files' = files
                      \/ /\ tasks'[t].pc = "done" /\ tasks'[t].outcome = "aborted"
                         /\ tasks'[t].staged = NoStaged
                         /\ magnets' = magnets
                         /\ files' = files
                /\ (tasks[t].pc = "ready" /\ tasks'[t].pc # "ready")
                   => /\ tasks'[t].pc = "find"
                      /\ \A m \in magnets' : m.ID = h => m.Status = "ready"
                /\ (tasks[t].pc = "find" /\ tasks'[t].pc # "find")
                   => tasks'[t].pc = "apply" /\ magnets' = magnets
                /\ (tasks[t].pc = "apply" /\ tasks'[t].pc # "apply")
                   => /\ tasks'[t].pc = "done" /\ tasks'[t].outcome = "ready"
                      /\ magnets' = magnets
                /\ tasks[t].pc = "done" => tasks'[t] = tasks[t]]_vars

\* one goroutine has ended ready and another by the timeout
C23_Witness ==
    /\ \E t \in 1..Len(tasks) : tasks[t].outcome = "ready" /\ tasks[t].staged # NoStaged
    /\ \E t \in 1..Len(tasks) : tasks[t].outcome = "timeout"

-----------------------------------------------------------------------------
(* The end of the range that handleGet serves.                             *)

\* a GET without validator on a resolvable file has been answered
PlainGetServed ==
    /\ Served
    /\ req.method = "GET"
    /\ req.ifNoneMatch = <<>>
    /\ ResolvableRequest

\* the response serves bytes start..effEnd of the requested file
EndUsed(start, effEnd) ==
    /\ resp.contentRange = <<start, effEnd, RequestedLength>>
    /\ resp.contentLength = effEnd - start + 1
    /\ resp.copied = Max(effEnd - start + 1, 0)

\* C24: on a resolvable file of length L, a Range with an end e, start <= e
\* < L, is served to e; a Range with an end at or after L, or with no end,
\* is served to L-1, in Content-Range, Content-Length and the bytes copied;
\* a request without Range header is served whole.
C24_EndOfRangeNormalised ==
    /\ \A s \in RangeValues, e \in RangeValues :
          (PlainGetServed /\ req.rangeHeader = RangeHeaderOf(s, e))
          => /\ (s <= e /\ e < RequestedLength) => EndUsed(s, e)
             /\ e >= RequestedLength => EndUsed(s, RequestedLength - 1)
    /\ \A s \in RangeValues :
          (PlainGetServed /\ req.rangeHeader = BytesEq \o FormatInt(s) \o <<"-">>)
          => EndUsed(s, RequestedLength - 1)
    /\ (PlainGetServed /\ req.rangeHeader = <<>>)
          => /\ resp.contentLength = RequestedLength
             /\ resp.copied = RequestedLength

-----------------------------------------------------------------------------
(* The validator of handleConditionalRequest.                              *)

\* the (path, start, end) triple the request is for
RequestTriple == <<req.filePath, RequestRange(req).start, RequestRange(req).end>>

\* C29: a request is answered 304 only if its If-None-Match value is the
\* validator of the requested (path, start, end) triple and of no other
\* triple.
C29_ValidatorIdentifiesTriple ==
    (Served /\ resp.status = 304)
    => \A p \in Paths, s \in RangeValues, e \in RangeValues :
          generateETag(p, s, e) = req.ifNoneMatch => <<p, s, e>> = RequestTriple

-----------------------------------------------------------------------------
(* GetFileStream against the state of the record.                          *)

\* C30: GetFileStream resolves a file of an identifier only while the
\* identifier's record exists with status ready.
C30_StreamOnlyWhenReady ==
    \A h \in InfoHashes, p \in Paths :
        GetFileStream(h, p, 0, 0).err = ""
            => \E m \in magnets : m.ID = h /\ m.Status = "ready"

-----------------------------------------------------------------------------
(* The access counter.                                                     *)

\* the access_count column of the record of h, 0 without a record
AccessCountOf(h) ==
    IF \E m \in magnets : m.ID = h
    THEN (CHOOSE m \in magnets : m.ID = h).AccessCount
    ELSE 0

\* a step in which handleGet serves a request
RequestStep == (resp = NoResponse /\ resp' # NoResponse) \/ req' # req

\* C26: a request whose file resolves spawns exactly one access update for
\* its identifier and leaves the counter alone; a request that does not
\* resolve spawns none; every other step either leaves counter and spawned
\* updates alone or applies one update, which raises the counter by
\* exactly one. So counter plus outstanding updates counts the resolved
\* requests, and with none outstanding the counter is that number.
C26_AccessCounted ==
    /\ [][\A h \in InfoHashes :
            LET resolved == RequestStep /\ ResolvableRequest' /\ req'.magnetID = h
            IN  /\ resolved
                   => /\ pendingAccess'[h] = pendingAccess[h] + 1
                      /\ AccessCountOf(h)' = AccessCountOf(h)
                /\ (RequestStep /\ ~resolved)
                   => /\ pendingAccess'[h] = pendingAccess[h]
                      /\ AccessCountOf(h)' = AccessCountOf(h)
                /\ ~RequestStep
                   => \/ /\ pendingAccess'[h] = pendingAccess[h]
                         /\ AccessCountOf(h)' = AccessCountOf(h)
                      \/ /\ pendingAccess'[h] = pendingAccess[h] - 1
                         /\ AccessCountOf(h)' = AccessCountOf(h) + 1]_vars
    /\ [](\A h \in InfoHashes :
            LET total == AccessCountOf(h) + pendingAccess[h]
            IN  /\ pendingAccess[h] >= 0
                /\ (~Served \/ ~ResolvableRequest \/ req.magnetID # h) => total = 0
                /\ (Served /\ ResolvableRequest /\ req.magnetID = h) => total \in {1, 2}
                /\ total = 2 => req.ifNoneMatch = resp.etag)

\* two requests resolved, both updates applied: the counter is 2
C26_Witness ==
    /\ Served /\ ResolvableRequest
    /\ pendingAccess[req.magnetID] = 0
    /\ AccessCountOf(req.magnetID) = 2

-----------------------------------------------------------------------------
(* The three batches of handleTorrentReady, one at a time.                 *)

BatchNames == {"create", "update", "delete"}

\* one of the three blocks of lines 478-511
ApplyBatch(tbl, nextID, sg, batch) ==
    CASE batch = "create" -> dbCreateFiles(tbl, nextID, sg.filesToCreate)
      [] batch = "update" -> dbSaveFiles(tbl, sg.filesToUpdate)
      [] batch = "delete" -> dbDeleteFiles(tbl, sg.filesToDelete)

\* the six orders of the three batches
BatchOrders ==
    { o \in [1..3 -> BatchNames] : \A i, j \in 1..3 : o[i] = o[j] => i = j }

ApplyInOrder(tbl, nextID, sg, o) ==
    ApplyBatch(ApplyBatch(ApplyBatch(tbl, nextID, sg, o[1]), nextID, sg, o[2]),
               nextID, sg, o[3])

CreatePaths(sg) == { sg.filesToCreate[i].FilePath : i \in 1..Len(sg.filesToCreate) }
UpdatePaths(sg) == { sg.filesToUpdate[i].FilePath : i \in 1..Len(sg.filesToUpdate) }
DeletePaths(sg) == { f.FilePath : f \in {g \in files : g.ID \in sg.filesToDelete} }

\* C25: what a pass has staged for creation, for update and for deletion is
\* pairwise disjoint by path, and the three batches applied to the catalog
\* in any of the six orders leave the same rows, those the pass leaves.
C25_BatchesCommute ==
    \A t \in 1..Len(tasks) :
        tasks[t].pc = "apply" =>
            LET sg == tasks[t].staged
            IN  /\ CreatePaths(sg) \cap UpdatePaths(sg) = {}
                /\ CreatePaths(sg) \cap DeletePaths(sg) = {}
                /\ UpdatePaths(sg) \cap DeletePaths(sg) = {}
                /\ \A o \in BatchOrders :
                      ApplyInOrder(files, nextFileID, sg, o)
                          = ApplyStaged(files, nextFileID, sg)

\* a pass about to apply a create, an update and a delete at once
C25_Witness ==
    \E t \in 1..Len(tasks) :
        /\ tasks[t].pc = "apply"
        /\ tasks[t].staged.filesToCreate # <<>>
        /\ tasks[t].staged.filesToUpdate # <<>>
        /\ tasks[t].staged.filesToDelete # {}
        /\ Cardinality(BatchOrders) = 6

-----------------------------------------------------------------------------
(* handleTorrentReady with database statements that may fail: the Create   *)
(* of the new rows (one transaction), each Save, and the Delete.           *)

\* the statements of a pass that can fail: a batch that is empty is skipped
Faults(sg) ==
    [create : IF sg.filesToCreate = <<>> THEN {FALSE} ELSE BOOLEAN,
     updates : SUBSET (1..Len(sg.filesToUpdate)),
     delete : IF sg.filesToDelete = {} THEN {FALSE} ELSE BOOLEAN]

\* the rows of filesToUpdate from position i on whose Save succeeds
RECURSIVE SavedRows(_, _, _)
SavedRows(rows, failedAt, i) ==
    IF i > Len(rows) THEN <<>>
    ELSE (IF i \in failedAt THEN <<>> ELSE <<rows[i]>>) \o SavedRows(rows, failedAt, i + 1)

\* ApplyStagedFaulty returning at the first statement that fails
ApplyStagedAbortOnError(tbl, nextID, sg, f) ==
    LET firstFailed == IF f.updates = {} THEN Len(sg.filesToUpdate) + 1
                       ELSE CHOOSE i \in f.updates : \A j \in f.updates : i <= j
        saved == dbSaveFiles(dbCreateFiles(tbl, nextID, sg.filesToCreate),
                             SubSeq(sg.filesToUpdate, 1, firstFailed - 1))
    IN  IF f.create THEN tbl
        ELSE IF f.updates # {} \/ f.delete THEN saved
        ELSE dbDeleteFiles(saved, sg.filesToDelete)

\* lines 478-511 under the failures f: each error is logged and the next
\* statement runs
ApplyStagedFaulty(tbl, nextID, sg, f) ==
    LET created == IF f.create THEN tbl ELSE dbCreateFiles(tbl, nextID, sg.filesToCreate)
        saved == dbSaveFiles(created, SavedRows(sg.filesToUpdate, f.updates, 1))
    IN  IF f.delete THEN saved ELSE dbDeleteFiles(saved, sg.filesToDelete)

\* lines 478-517 with some of the statements failing
HandleReadyApplyFaulty(t) ==
    /\ tasks[t].pc = "apply"
    /\ \E f \in Faults(tasks[t].staged) :
          /\ files' = ApplyStagedFaulty(files, nextFileID, tasks[t].staged, f)
          /\ nextFileID' = IF f.create THEN nextFileID
                           ELSE nextFileID + Len(tasks[t].staged.filesToCreate)
          /\ tasks' = [tasks EXCEPT ![t] =
                          [@ EXCEPT !.pc = "done", !.outcome = "ready", !.failed = f]]
    /\ UNCHANGED <<magnets, activeTorrents, mutex, ctxDone, engine, torrFiles,
                   calls, httpVars, adminVars>>

NextSyncFaulty ==
    \E t \in 1..Len(tasks) :
        /\ \A u \in 1..(t - 1) : tasks[u].pc = "done"
        /\ \/ HandleReadyUpdate(t)
           \/ HandleReadyFind(t)
           \/ HandleReadyApplyFaulty(t)

SpecSyncFaulty == InitSync /\ [][NextSyncFaulty]_vars

\* the rows of tbl with primary key id
RowsWithID(tbl, id) == { r \in tbl : r.ID = id }

\* C27: in the step that applies a pass's batches, the create batch puts
\* every staged row under its new key unless the Create failed, in which
\* case no row is added; every staged update whose Save did not fail
\* replaces its row, whatever else failed, and a failed Save leaves its row
\* as it was; the staged deletes are gone unless the Delete failed, in
\* which case those rows stay as they were and the creates and updates
\* already applied stay too; no other row changes.
C27_BatchFailuresIndependent ==
    [][\A t \in 1..Len(tasks) :
        (tasks[t].pc = "apply" /\ tasks'[t].pc = "done") =>
            LET sg == tasks[t].staged
                f == tasks'[t].failed
                n == Len(sg.filesToCreate)
                createdIDs == nextFileID..(nextFileID + n - 1)
                updatedIDs == { sg.filesToUpdate[i].ID : i \in 1..Len(sg.filesToUpdate) }
            IN  /\ f \in Faults(sg)
                /\ \A k \in 1..n :
                      RowsWithID(files', nextFileID + k - 1) =
                          IF f.create THEN {}
                          ELSE {[sg.filesToCreate[k] EXCEPT !.ID = nextFileID + k - 1]}
                /\ \A i \in 1..Len(sg.filesToUpdate) :
                      RowsWithID(files', sg.filesToUpdate[i].ID) =
                          IF i \in f.updates
                          THEN RowsWithID(files, sg.filesToUpdate[i].ID)
                          ELSE {sg.filesToUpdate[i]}
                /\ \A id \in sg.filesToDelete :
                      RowsWithID(files', id) =
                          IF f.delete THEN RowsWithID(files, id) ELSE {}
                /\ \A r \in files \cup files' :
                      r.ID \notin (createdIDs \cup updatedIDs \cup sg.filesToDelete)
                          => (r \in files <=> r \in files')]_vars

\* the first pass has ended with its Create failed while its update and its
\* delete went through
C27_Witness ==
    /\ tasks[1].pc = "done"
    /\ tasks[2].pc = "ready"
    /\ tasks[1].failed = [create |-> TRUE, updates |-> {}, delete |-> FALSE]
    /\ tasks[1].staged.filesToUpdate # <<>>
    /\ tasks[1].staged.filesToDelete # {}
    /\ tasks[1].staged.filesToUpdate[1] \in files
    /\ \A f \in files : f.ID \notin tasks[1].staged.filesToDelete
    /\ \A f \in files : f.ID < nextFileID

-----------------------------------------------------------------------------
(* Termination of the acquisition goroutines. The scheduler runs every    *)
(* goroutine that can take a step, the timer of the select fires, and      *)
(* Stop, once it holds the mutex, runs to its deferred Unlock.             *)

\* submissions, acquisition, the swarm and shutdown; no record is removed
NextLive == Submit \/ Acquire \/ AcquireFails \/ Swarm \/ Stop

SpecLive ==
    /\ Init
    /\ [][NextLive]_vars
    /\ WF_vars(Acquire \/ AcquireFails)
    /\ WF_vars(StopDropUnlock)

\* the record of h is there and pending
Pending(h) == \E m \in magnets : m.ID = h /\ m.Status = "pending"

\* C28: from some point on every spawned goroutine has ended and, unless
\* shutdown has been signalled, no record is pending any more (each is
\* ready or in error); every call that created a record has spawned its
\* goroutine; and a goroutine ends by the shutdown branch only once
\* shutdown has been signalled, leaving the record as it was.
C28_AcquisitionTerminates ==
    /\ <>[](/\ \A t \in 1..Len(tasks) : tasks[t].pc = "done"
            /\ ctxDone \/ \A h \in InfoHashes : ~Pending(h))
    /\ [](\A c \in 1..MaxCalls : calls[c].spawned # 0 => calls[c].spawned \in 1..Len(tasks))
    /\ [][\A t \in 1..Len(tasks) :
            (tasks[t].pc # "done" /\ tasks'[t].outcome = "aborted")
                => ctxDone /\ magnets' = magnets]_vars

\* both goroutines have ended, one with its record ready and one with its
\* record in error, without a shutdown
C28_Witness ==
    /\ ~ctxDone
    /\ Len(tasks) = MaxCalls
    /\ \A t \in 1..Len(tasks) : tasks[t].pc = "done"
    /\ \E t \in 1..Len(tasks) :
          /\ tasks[t].outcome = "ready"
          /\ \E m \in magnets : m.ID = tasks[t].infoHash /\ m.Status = "ready"
    /\ \E t \in 1..Len(tasks) :
          /\ tasks[t].outcome = "timeout"
          /\ \E m \in magnets : m.ID = tasks[t].infoHash /\ m.Status = "error"

-----------------------------------------------------------------------------
(* The session map against the catalog.                                    *)

\* TorrentService.GetActiveTorrentCount: len(s.activeTorrents)
GetActiveTorrentCount == Cardinality({ h \in DOMAIN activeTorrents : activeTorrents[h] # Nil })

\* C31: every identifier with a session in the session map has a record in
\* the catalog, so the number of sessions is at most the number of records
\* and GetTorrent of a removed identifier finds nothing.
C31_SessionHasRecord ==
    /\ \A h \in InfoHashes :
          GetTorrent(h) # Nil => \E m \in magnets : m.ID = h
    /\ GetActiveTorrentCount <= Cardinality({ m.ID : m \in magnets })

-----------------------------------------------------------------------------
(* The record's file count against the rows of the identifier.             *)

\* C32: once a pass has ended, the file_count of the record is the number
\* of File rows of the identifier.
C32_FileCountMatchesRows ==
    tasks[1].pc = "done"
        => \A m \in magnets : m.ID = SyncID => m.FileCount = Cardinality(SyncRows)

-----------------------------------------------------------------------------
(* The arithmetic of the range handleGet serves.                           *)

\* the request got past the conditional request to the headers of the file
ReachedStreaming ==
    /\ Served
    /\ ResolvableRequest
    /\ resp.status \in {200, 206}

\* C33: a request that reaches the streaming step on a file of length
\* L > 0 announces a Content-Length (the count also passed to io.CopyN)
\* between 1 and L, a Content-Range with 0 <= start <= end <= L-1, and
\* status 206 only if its Range header parsed.
C33_RangeWithinFile ==
    ReachedStreaming =>
        /\ RequestedLength > 0
        /\ resp.contentLength \in 1..RequestedLength
        /\ resp.contentRange # <<>> =>
              /\ 0 <= resp.contentRange[1]
              /\ resp.contentRange[1] <= resp.contentRange[2]
              /\ resp.contentRange[2] <= RequestedLength - 1
        /\ resp.status = 206 =>
              /\ req.rangeHeader # <<>>
              /\ ~parseRangeHeader(req.rangeHeader).err

-----------------------------------------------------------------------------
(* Records that were pending when the process stopped.                     *)

\* C34: once a restart has settled (Start has returned and every goroutine
\* it spawned has ended, after which nothing runs without a client), no
\* record is pending: each has reached ready or error.
C34_NoPendingAfterRestart ==
    (RecoverSettled /\ startPc = "done") => \A h \in InfoHashes : ~Pending(h)

=============================================================================
